---- MODULE Spec2Model ----
(***************************************************************************)
(* Simulation core of AlienSurvivor (src/game/types.ts, class Game) with   *)
(* the React shell that drives it (src/unnamed/part_000, App).             *)
(*                                                                         *)
(* Units.  Time is counted in centiseconds (0.15 s = 15), so every         *)
(* duration of src/game/config.ts is an integer.  Hit points and stamina   *)
(* are counted in hundredths (100 hp = 10000), which makes the level and   *)
(* New-Game+ scalings (x1.1 .. x1.4, x1.2, x1.5) exact integers.  The      *)
(* JavaScript code computes in binary floating point; rounding errors of   *)
(* the order 1e-14 are not modelled.                                       *)
(*                                                                         *)
(* Geometry.  Positions are not modelled.  Every distance test of the code *)
(* ("bullet within e.size of enemy e", "enemy touches the player", ...)    *)
(* is an input of the handler that evaluates it.                           *)
(*                                                                         *)
(* Handlers are operators from a state record to a state record; an action *)
(* applies one handler to the current state.                               *)
(***************************************************************************)
EXTENDS Integers, Sequences, FiniteSets, TLC

VARIABLES
    gameState,          \* Game.gameState
    previousGameState,  \* Game.previousGameState ("null" when null)
    isNewGamePlus,      \* Game.isNewGamePlus
    currentLevel,       \* Game.currentLevel
    weaponLevel,        \* Game.weaponLevel (1 or 2)
    player,             \* Game.player
    posY,               \* playerObject.position.y, in 1e-4 m
    wave,               \* Game.wave
    boss,               \* Game.boss: <<>> (null) or <<record>>
    enemies,            \* Game.enemies
    bullets,            \* Game.bullets
    bossBullets,        \* Game.bossBullets
    droneBullets,       \* Game.droneBullets
    pickups,            \* Game.pickups
    particles,          \* Game.particles (the hazards; cosmetic ones are not kept)
    drone,              \* Game.drone present
    droneTarget,        \* Game.droneTarget: <<>> or <<reference>>
    lastDroneShotTime,  \* Game.lastDroneShotTime
    keys,               \* Game.keys: the set of codes that are true
    clock,              \* THREE.Clock: running, elapsedTime
    pointerLock,        \* document.pointerLockElement === canvas
    timers,             \* pending setTimeout callbacks, in scheduling order
    awaits,             \* pending _generateBossIntro promises
    message,            \* App.message (text, id)
    wallTime,           \* Date.now(), relative to page load
    epoch,              \* history: number of resetGame calls so far
    hist                \* history: what the last handler did

vars == <<gameState, previousGameState, isNewGamePlus, currentLevel, weaponLevel,
          player, posY, wave, boss, enemies, bullets, bossBullets, droneBullets,
          pickups, particles, drone, droneTarget, lastDroneShotTime, keys, clock,
          pointerLock, timers, awaits, message, wallTime, epoch, hist>>

----------------------------------------------------------------------------
(* Bounds of the model *)

\* resetGame calls explored in one behaviour
MaxResets == 2
\* player bullets, drone bullets, boss bullets, pickups, hazards and pending
\* callbacks kept at a time
MaxBullets == 2
MaxDroneBullets == 1
MaxBossBullets == 5
MaxPickups == 2
MaxParticles == 2
MaxTimers == 4
\* wall-clock time (centiseconds) up to which the session is explored
SessionEnd == 1500
\* the same for the end of wave 1 (which begins at 3200)
LastStandEnd == 3900
\* the same for the waves played with the blade
WaveEnd == 4600
DuelEnd == 40300
CombatEnd == 40200
HandlingEnd == 2200
ResetEnd == 40200
PauseEnd == 40200
IntroEnd == 40700
ArsenalEnd == 41700
MendEnd == 40060
MusterEnd == 61500
EagerEnd == 1600
TriumphEnd == 41600
OverrunEnd == 40700
MenuEnd == 1800
QuakeEnd == 40100

----------------------------------------------------------------------------
(* src/game/config.ts *)

PLAYER_HP == 100
PLAYER_STAMINA == 100
STAMINA_COST == 25
STAMINA_REGEN == 35
DAMAGE_IMMUNITY == 50
JUMP_FORCE == 8
GRAVITY == 25

W1_DAMAGE == 10
W1_MAGAZINE_SIZE == 30
W1_INITIAL_RESERVE_AMMO == 90
W1_PICKUP_AMMO_AMOUNT == 30
W1_COOLDOWN == 15
W1_RELOAD_TIME == 150
W2_DAMAGE == 15
W2_MAGAZINE_SIZE == 40
W2_INITIAL_RESERVE_AMMO == 120
W2_PICKUP_AMMO_AMOUNT == 40
W2_COOLDOWN == 8
W2_RELOAD_TIME == 120
LASER_DAMAGE == 25
LASER_COOLDOWN == 10

MELEE_DAMAGE == 35
MELEE_COOLDOWN == 120
MELEE_SWING_DURATION == 30

SKILL_Q_HEAL == 35
SKILL_Q_COOLDOWN == 2000
SKILL_Z_DURATION == 500
SKILL_Z_COOLDOWN == 3000
SKILL_Z_DAMAGE == 50
SHIELD_DURATION == 400
SHIELD_COOLDOWN == 2500

DRONE_DAMAGE == 4
DRONE_FIRE_RATE == 50

MAX_LEVEL == 5
HEALTH_AMOUNT == 20
WEIGHT_AMMO == 10
WEIGHT_HEALTH == 4
WEAK_POINT_HP == 500

\* hundredths of a hit point / stamina point
Cents(x) == x * 100

EnemyTypes == {"drone", "scout", "tank", "kamikaze"}

\* CONFIG.ENEMY_*: HP, DAMAGE, DROP_CHANCE (in percent)
EnemyConfig(type) ==
    CASE type = "drone"    -> [HP |-> 40, DAMAGE |-> 10, DROP_CHANCE |-> 50]
      [] type = "scout"    -> [HP |-> 25, DAMAGE |-> 8,  DROP_CHANCE |-> 40]
      [] type = "tank"     -> [HP |-> 90, DAMAGE |-> 15, DROP_CHANCE |-> 60]
      [] type = "kamikaze" -> [HP |-> 10, DAMAGE |-> 40, DROP_CHANCE |-> 10]

\* CONFIG.BOSS_BASE[level]: HP, DAMAGE, ATTACK_COOLDOWN (cs), BULLET_DAMAGE
BossConfig(level) ==
    CASE level = 1 -> [HP |-> 800,   DAMAGE |-> 20, ATTACK_COOLDOWN |-> 300, BULLET_DAMAGE |-> 15]
      [] level = 2 -> [HP |-> 1200,  DAMAGE |-> 15, ATTACK_COOLDOWN |-> 200, BULLET_DAMAGE |-> 15]
      [] level = 3 -> [HP |-> 2000,  DAMAGE |-> 25, ATTACK_COOLDOWN |-> 250, BULLET_DAMAGE |-> 20]
      [] level = 4 -> [HP |-> 3500,  DAMAGE |-> 30, ATTACK_COOLDOWN |-> 400, BULLET_DAMAGE |-> 25]
      [] level = 5 -> [HP |-> 10000, DAMAGE |-> 40, ATTACK_COOLDOWN |-> 500, BULLET_DAMAGE |-> 30]

\* CONFIG.WEAPON[weaponLevel]
WeaponConfig(wl) ==
    IF wl = 1
    THEN [DAMAGE |-> W1_DAMAGE, MAGAZINE_SIZE |-> W1_MAGAZINE_SIZE,
          INITIAL_RESERVE_AMMO |-> W1_INITIAL_RESERVE_AMMO,
          PICKUP_AMMO_AMOUNT |-> W1_PICKUP_AMMO_AMOUNT,
          COOLDOWN |-> W1_COOLDOWN, RELOAD_TIME |-> W1_RELOAD_TIME]
    ELSE [DAMAGE |-> W2_DAMAGE, MAGAZINE_SIZE |-> W2_MAGAZINE_SIZE,
          INITIAL_RESERVE_AMMO |-> W2_INITIAL_RESERVE_AMMO,
          PICKUP_AMMO_AMOUNT |-> W2_PICKUP_AMMO_AMOUNT,
          COOLDOWN |-> W2_COOLDOWN, RELOAD_TIME |-> W2_RELOAD_TIME]

----------------------------------------------------------------------------
(* Helpers *)

Min2(a, b) == IF a < b THEN a ELSE b
Max2(a, b) == IF a > b THEN a ELSE b

\* Array.prototype.splice(i, 1)
Splice(q, i) == [k \in 1..(Len(q) - 1) |-> IF k < i THEN q[k] ELSE q[k + 1]]

\* the index of the first element of q with identity id, 0 when absent
\* (Array.prototype.indexOf, counted from 1)
IndexOfId(q, id) ==
    IF \E k \in 1..Len(q) : q[k].id = id
    THEN CHOOSE k \in 1..Len(q) : q[k].id = id /\ \A j \in 1..(k - 1) : q[j].id # id
    ELSE 0

----------------------------------------------------------------------------
(* The state as one record, and back *)

Cur ==
    [gameState |-> gameState, previousGameState |-> previousGameState,
     isNewGamePlus |-> isNewGamePlus, currentLevel |-> currentLevel,
     weaponLevel |-> weaponLevel, player |-> player, posY |-> posY, wave |-> wave,
     boss |-> boss, enemies |-> enemies, bullets |-> bullets,
     bossBullets |-> bossBullets, droneBullets |-> droneBullets,
     pickups |-> pickups, particles |-> particles, drone |-> drone,
     droneTarget |-> droneTarget, lastDroneShotTime |-> lastDroneShotTime,
     keys |-> keys, clock |-> clock, pointerLock |-> pointerLock,
     timers |-> timers, awaits |-> awaits, message |-> message,
     wallTime |-> wallTime, epoch |-> epoch, hist |-> hist]

Becomes(s) ==
    /\ gameState' = s.gameState
    /\ previousGameState' = s.previousGameState
    /\ isNewGamePlus' = s.isNewGamePlus
    /\ currentLevel' = s.currentLevel
    /\ weaponLevel' = s.weaponLevel
    /\ player' = s.player
    /\ posY' = s.posY
    /\ wave' = s.wave
    /\ boss' = s.boss
    /\ enemies' = s.enemies
    /\ bullets' = s.bullets
    /\ bossBullets' = s.bossBullets
    /\ droneBullets' = s.droneBullets
    /\ pickups' = s.pickups
    /\ particles' = s.particles
    /\ drone' = s.drone
    /\ droneTarget' = s.droneTarget
    /\ lastDroneShotTime' = s.lastDroneShotTime
    /\ keys' = s.keys
    /\ clock' = s.clock
    /\ pointerLock' = s.pointerLock
    /\ timers' = s.timers
    /\ awaits' = s.awaits
    /\ message' = s.message
    /\ wallTime' = s.wallTime
    /\ epoch' = s.epoch
    /\ hist' = s.hist

----------------------------------------------------------------------------
(* History (not program state).  hist describes the handler that ran last:  *)
(*   op      the handler                                                    *)
(*   run     the value of epoch when the running callback was scheduled     *)
(*   shot    playerShoot ran                                                *)
(*   kills   onEnemyDefeated calls, loot: loot rolls, bossSeq:              *)
(*           triggerBossSequence calls, bossDeaths: onBossDefeated calls    *)
(*           that found a boss                                              *)
(*   shielded  playerTakeDamage calls made while shield.active              *)
(*   absorbed  each of them left player.hp and the mode as they were        *)
(*   waves   waves created (wave = {...} in startNextWave)                  *)
(*   spawned spawnEnemy calls, contacts: contact hits of the player         *)
(*   thrown  the handler ended with an uncaught TypeError                   *)
(*   victories  calls of the victory callback                               *)
(*   hazards  the hits of the boss's hazards that hurt the player: kind,    *)
(*            whether the player was grounded, the hazard's earlier hits,   *)
(*            whether the hazard was removed in the same frame              *)
(*   aimed   the targets droneShoot has fired at: kind, run, whether live   *)
(*   blast   the kamikaze that touched the player and what its burst        *)
(*           reaches                                                        *)
(*   said    the messages emitted, with the identifiers App gave them       *)
(* and two facts about the past:                                            *)
(*   dead    onGameOver has run and resetGame has not run since             *)
(*   quit    quitToMainMenu has run and handleStartGame has not run since   *)
(*   seqInWave  triggerBossSequence calls since this.wave was assigned      *)

NoHist ==
    [op |-> "init", run |-> 0, shot |-> FALSE, kills |-> 0, loot |-> 0,
     bossSeq |-> 0, bossDeaths |-> 0, shielded |-> 0, absorbed |-> TRUE,
     blocked |-> {}, swinging |-> FALSE, waves |-> 0, spawned |-> 0, contacts |-> 0, thrown |-> FALSE,
     dead |-> FALSE, quit |-> FALSE, seqInWave |-> 0,
     weakHits |-> 0, bodyHits |-> 0, bodyHeld |-> TRUE, bossDown |-> FALSE,
     victories |-> 0, hazards |-> {}, aimed |-> {},
     blast |-> {}, said |-> <<>>]

\* an uncaught TypeError: the rest of the running handler is skipped
Throw(s) == [s EXCEPT !.hist.thrown = TRUE]

\* f(s), unless the handler has thrown
Do(s, f(_)) == IF s.hist.thrown THEN s ELSE f(s)

Begin(s, op, run) ==
    [s EXCEPT !.hist = [NoHist EXCEPT !.op = op, !.run = run,
                                      !.dead = s.hist.dead, !.quit = s.hist.quit,
                                      !.seqInWave = s.hist.seqInWave,
                                      !.bossDown = s.hist.bossDown]]

----------------------------------------------------------------------------
(* Callbacks into the React shell, timers *)

\* Game.changeGameState; App passes (newState) => setGameState(newState)
changeGameState(s, newState) == [s EXCEPT !.gameState = newState]

\* App.handleMessage: setMessage({ text, id: Date.now() })
handleMessage(s, text) ==
    [s EXCEPT !.message = <<[text |-> text, id |-> s.wallTime]>>,
              !.hist.said = Append(@, [text |-> text, id |-> s.wallTime])]

onMessage(s, text) == handleMessage(s, text)

NoBossData == [bossName |-> "", introMessage |-> ""]

\* window.setTimeout(callback, delay): the callback is kept with the time left
\* until it is due; run is history (the run that scheduled it)
SetTimeout(s, kind, delay, index, messages, bossData) ==
    [s EXCEPT !.timers = Append(@, [kind |-> kind, rem |-> delay, run |-> s.hist.run,
                                    index |-> index, messages |-> messages,
                                    bossData |-> bossData])]

\* document.exitPointerLock() when the canvas holds the lock
exitPointerLock(s) == [s EXCEPT !.pointerLock = FALSE]

----------------------------------------------------------------------------
(* Game: reset, start, pause, quit *)

\* the value resetGame assigns to this.player
NewPlayer(isNGP) ==
    [hp |-> Cents(PLAYER_HP), maxHp |-> Cents(PLAYER_HP),
     stamina |-> Cents(PLAYER_STAMINA), maxStamina |-> Cents(PLAYER_STAMINA),
     ammoInMagazine |-> W1_MAGAZINE_SIZE, maxAmmoInMagazine |-> W1_MAGAZINE_SIZE,
     reserveAmmo |-> W1_INITIAL_RESERVE_AMMO,
     velocityY |-> 0, onGround |-> FALSE, sprinting |-> FALSE, lastShotTime |-> 0,
     reloading |-> FALSE, reloadTime |-> 0,
     isAiming |-> FALSE,
     skills |-> [q |-> [unlocked |-> isNGP, cooldown |-> 0],
                 z |-> [unlocked |-> isNGP, cooldown |-> 0, active |-> FALSE, duration |-> 0]],
     melee |-> [attacking |-> FALSE, cooldown |-> 0, swingTime |-> 0],
     lastHitTime |-> 0,
     shield |-> [unlocked |-> FALSE, cooldown |-> 0, active |-> FALSE, duration |-> 0],
     drone |-> [unlocked |-> FALSE]]

\* this.player before the first resetGame (undefined): no field is read then
NoPlayer ==
    [NewPlayer(FALSE) EXCEPT !.hp = 0, !.maxHp = 0, !.stamina = 0, !.maxStamina = 0,
                             !.ammoInMagazine = 0, !.maxAmmoInMagazine = 0,
                             !.reserveAmmo = 0]

PlayerDefined(s) == s.player # NoPlayer

\* private startGame()
startGame(s) ==
    IF s.isNewGamePlus
    THEN SetTimeout(onMessage(s, "ngp_warning"), "startNextWave", 400, 0, <<>>, NoBossData)
    ELSE SetTimeout(onMessage(s, "mayday"), "startNextWave", 500, 0, <<>>, NoBossData)

\* resetGame that leaves the pickups on the ground
resetGame_littered(s0, isNGP) ==
    LET s == [s0 EXCEPT !.epoch = @ + 1, !.hist.run = s0.epoch + 1,
                        !.hist.dead = FALSE, !.hist.bossDown = FALSE]
    IN startGame([s EXCEPT
           !.isNewGamePlus = isNGP,
           !.currentLevel = 0,
           !.weaponLevel = 1,
           !.previousGameState = "null",
           !.posY = 16000,
           !.player = NewPlayer(isNGP),
           !.enemies = <<>>, !.bullets = <<>>, !.bossBullets = <<>>,
           !.particles = <<>>, !.droneBullets = <<>>,
           !.boss = <<>>, !.drone = FALSE])

\* public resetGame(isNGP)
resetGame(s0, isNGP) ==
    LET s == [s0 EXCEPT !.epoch = @ + 1, !.hist.run = s0.epoch + 1,
                        !.hist.dead = FALSE, !.hist.bossDown = FALSE]
    IN startGame([s EXCEPT
           !.isNewGamePlus = isNGP,
           !.currentLevel = 0,
           !.weaponLevel = 1,
           !.previousGameState = "null",
           !.posY = 16000,
           !.player = NewPlayer(isNGP),
           !.enemies = <<>>, !.bullets = <<>>, !.bossBullets = <<>>,
           !.pickups = <<>>, !.particles = <<>>, !.droneBullets = <<>>,
           !.boss = <<>>, !.drone = FALSE])

\* public togglePause()
togglePause(s) ==
    IF s.gameState = "paused"
    THEN IF s.previousGameState # "null"
         THEN [changeGameState(s, s.previousGameState) EXCEPT
                  !.previousGameState = "null",
                  \* THREE.Clock.start(): elapsedTime = 0, running = true
                  !.clock.running = TRUE, !.clock.elapsedTime = 0]
         ELSE s
    ELSE IF s.gameState \in {"playing", "boss_fight"}
         THEN exitPointerLock(
                [changeGameState([s EXCEPT !.previousGameState = s.gameState], "paused")
                    \* THREE.Clock.stop(): running = false, autoStart = false
                    EXCEPT !.clock.running = FALSE, !.clock.autoStart = FALSE])
         ELSE s

\* public quitToMainMenu()
quitToMainMenu(s) ==
    [onMessage(resetGame(exitPointerLock(changeGameState(s, "start_screen")), FALSE), "title")
        EXCEPT !.hist.quit = TRUE]

----------------------------------------------------------------------------
(* WaveDirector *)

\* unlockSkills that forgets the overcharge
unlockSkills_half(s) ==
    onMessage([s EXCEPT !.player.skills.q.unlocked = TRUE], "skills_unlocked")

\* private unlockSkills()
unlockSkills(s) ==
    onMessage([s EXCEPT !.player.skills.q.unlocked = TRUE,
                        !.player.skills.z.unlocked = TRUE], "skills_unlocked")

\* private spawnDrone()
spawnDrone(s) == [s EXCEPT !.drone = TRUE]

\* a wave whose spawn interval does not shrink with the level
NewWave_flat(level, isNGP) ==
    [totalToKill |-> 10 + level * 8, killedInWave |-> 0, spawnedInWave |-> 0,
     spawnInterval |-> Max2(50, IF isNGP THEN 100 ELSE 150),
     spawnTimer |-> 150, maxConcurrent |-> IF isNGP THEN 15 ELSE 12]

\* the object literal assigned to this.wave in startNextWave
NewWave(level, isNGP) ==
    [totalToKill |-> 10 + level * 8, killedInWave |-> 0, spawnedInWave |-> 0,
     spawnInterval |-> Max2(50, (IF isNGP THEN 100 ELSE 150) - level * 10),
     spawnTimer |-> 150, maxConcurrent |-> IF isNGP THEN 15 ELSE 12]

\* this.wave before the first startNextWave (undefined): no field is read then
NoWave ==
    [totalToKill |-> 0, killedInWave |-> 0, spawnedInWave |-> 0,
     spawnInterval |-> 0, spawnTimer |-> 0, maxConcurrent |-> 0]

\* the statements that make the wave begin (both copies in startNextWave:
\* the else branch of showMessages and the branch without narration)
BeginWave(s, announce) ==
    LET s1 == [changeGameState(s, "playing") EXCEPT
                  !.wave = NewWave(s.currentLevel, s.isNewGamePlus),
                  !.hist.waves = @ + 1, !.hist.seqInWave = 0]
        s2 == IF announce THEN onMessage(s1, "wave_n") ELSE s1
    IN IF s2.currentLevel = 2 /\ ~s2.isNewGamePlus THEN unlockSkills(s2) ELSE s2

\* the closure showMessages(index) of startNextWave
showMessages(s, index, messages) ==
    IF index < Len(messages)
    THEN SetTimeout(onMessage(s, messages[index + 1]), "showMessages", 400,
                    index + 1, messages, NoBossData)
    ELSE BeginWave(s, TRUE)

\* private startNextWave()
startNextWave(s0) ==
    LET s1 == [s0 EXCEPT !.currentLevel = @ + 1, !.hist.bossDown = FALSE]
        L == s1.currentLevel
        unlockShield == L = 3 /\ ~s1.player.shield.unlocked
        s2 == IF unlockShield THEN [s1 EXCEPT !.player.shield.unlocked = TRUE] ELSE s1
        unlockDrone == L = 4 /\ ~s2.player.drone.unlocked
        s3 == IF unlockDrone
              THEN spawnDrone([s2 EXCEPT !.player.drone.unlocked = TRUE])
              ELSE s2
        s4 == IF L = 3
              THEN [s3 EXCEPT !.weaponLevel = 2,
                              !.player.maxAmmoInMagazine = W2_MAGAZINE_SIZE,
                              !.player.reserveAmmo =
                                  @ + W2_INITIAL_RESERVE_AMMO - W1_INITIAL_RESERVE_AMMO]
              ELSE s3
        messages == (IF unlockShield THEN <<"shield_unlocked">> ELSE <<>>)
                    \o (IF unlockDrone THEN <<"drone_deployed">> ELSE <<>>)
                    \o (IF L = 3 THEN <<"weapon_upgraded">> ELSE <<>>)
    IN IF Len(messages) > 0
       THEN showMessages(s4, 0, messages)
       ELSE BeginWave(s4, L > 1)

----------------------------------------------------------------------------
(* BossEncounter: the sequence *)

\* private async triggerBossSequence(), up to its await: the request is
\* issued with the level and the mode of this moment
triggerBossSequence(s) ==
    [onMessage(changeGameState(s, "wave_transition"), "boss_approaching") EXCEPT
        !.awaits = Append(@, [level |-> s.currentLevel, isNewGamePlus |-> s.isNewGamePlus,
                              run |-> s.hist.run]),
        !.hist.bossSeq = @ + 1, !.hist.seqInWave = @ + 1]

\* what _generateBossIntro resolves to.  outcome: "ok" (a JSON object with both
\* fields), "no_name", "no_intro" (a JSON object lacking one), "failed" (the
\* request rejects, or JSON.parse throws: the catch returns the fallback)
_generateBossIntro(outcome) ==
    CASE outcome = "ok"       -> [bossName |-> "service", introMessage |-> "service"]
      [] outcome = "no_name"  -> [bossName |-> "undefined", introMessage |-> "service"]
      [] outcome = "no_intro" -> [bossName |-> "service", introMessage |-> "undefined"]
      [] outcome = "failed"   -> [bossName |-> "fallback", introMessage |-> "fallback"]

\* triggerBossSequence after its await
introResolved(s, bossData) == SetTimeout(s, "bossSpawn", 300, 0, <<>>, bossData)

\* the boss object the setTimeout callback of triggerBossSequence builds
NewBoss(s, bossData) ==
    LET cfg == BossConfig(s.currentLevel)
        scale15 == IF s.isNewGamePlus THEN 15 ELSE 10
    IN [id |-> <<s.epoch, s.currentLevel, s.wallTime>>,
        hp |-> cfg.HP * 10 * scale15, maxHp |-> cfg.HP * 10 * scale15,
        damage |-> cfg.DAMAGE * 10 * scale15,
        name |-> bossData.bossName, attackTimer |-> 0,
        isFinalBoss |-> s.currentLevel = 5,
        weakPointHp |-> IF s.currentLevel = 5 THEN Cents(WEAK_POINT_HP) ELSE 0,
        maxWeakPointHp |-> IF s.currentLevel = 5 THEN Cents(WEAK_POINT_HP) ELSE 0]

\* the setTimeout callback of triggerBossSequence.  CONFIG.BOSS_BASE has the
\* keys 1..5: for any other currentLevel createBossMesh reads .SIZE of
\* undefined and throws, after the mode has been changed
bossSpawn(s, bossData) ==
    LET s1 == changeGameState(onMessage(s, bossData.introMessage), "boss_fight")
    IN IF s1.currentLevel \in 1..MAX_LEVEL
       THEN [s1 EXCEPT !.boss = <<NewBoss(s1, bossData)>>]
       ELSE s1

\* App.handleVictory: setGameState('victory')
onVictory(s) == [s EXCEPT !.gameState = "victory", !.hist.victories = @ + 1]

\* onBossDefeated that declares victory one level early
onBossDefeated_early(s) ==
    IF s.boss = <<>> THEN s
    ELSE
      LET s1 == [s EXCEPT !.boss = <<>>, !.bossBullets = <<>>,
                          !.particles = SelectSeq(@, LAMBDA p :
                              p.kind \notin {"shockwave", "ring", "laser"}),
                          !.hist.bossDeaths = @ + 1, !.hist.bossDown = TRUE]
      IN IF s1.currentLevel >= MAX_LEVEL - 1
         THEN onVictory(exitPointerLock(changeGameState(s1, "victory")))
         ELSE SetTimeout(onMessage(changeGameState(s1, "wave_transition"), "wave_cleared"),
                         "startNextWave", 400, 0, <<>>, NoBossData)

\* onBossDefeated without the clean-up of the boss's projectiles and hazards
onBossDefeated_littered(s) ==
    IF s.boss = <<>> THEN s
    ELSE
      LET s1 == [s EXCEPT !.boss = <<>>,
                          !.hist.bossDeaths = @ + 1, !.hist.bossDown = TRUE]
      IN IF s1.currentLevel >= MAX_LEVEL
         THEN onVictory(exitPointerLock(changeGameState(s1, "victory")))
         ELSE SetTimeout(onMessage(changeGameState(s1, "wave_transition"), "wave_cleared"),
                         "startNextWave", 400, 0, <<>>, NoBossData)

\* private onBossDefeated()
onBossDefeated(s) ==
    IF s.boss = <<>> THEN s
    ELSE
      LET s1 == [s EXCEPT !.boss = <<>>, !.bossBullets = <<>>,
                          !.particles = SelectSeq(@, LAMBDA p :
                              p.kind \notin {"shockwave", "ring", "laser"}),
                          !.hist.bossDeaths = @ + 1, !.hist.bossDown = TRUE]
      IN IF s1.currentLevel >= MAX_LEVEL
         THEN onVictory(exitPointerLock(changeGameState(s1, "victory")))
         ELSE SetTimeout(onMessage(changeGameState(s1, "wave_transition"), "wave_cleared"),
                         "startNextWave", 400, 0, <<>>, NoBossData)

----------------------------------------------------------------------------
(* DamageModel.  inp carries the inputs of the running handler:             *)
(*   loot[id]     Math.random() of the loot roll of enemy id, in percent:   *)
(*                [drop, kind]                                              *)
(*   burst        the enemies (ids) within the radius of an area burst      *)
(*   burstBoss, burstWeak   the boss / its weak point is within that radius *)

\* private _spawnPickup(position)
_spawnPickup(s, kind) ==
    LET type == IF kind * (WEIGHT_AMMO + WEIGHT_HEALTH) < WEIGHT_AMMO * 100
                THEN "ammo" ELSE "health"
    IN [s EXCEPT !.pickups = Append(@, [type |-> type])]

\* private onEnemyDefeated(enemy, index)
onEnemyDefeated(s, index, inp) ==
    LET enemy == s.enemies[index]
        s1 == [s EXCEPT !.enemies = Splice(@, index),
                        !.hist.kills = @ + 1, !.hist.loot = @ + 1]
        s2 == IF inp.loot[enemy.id].drop < EnemyConfig(enemy.type).DROP_CHANCE
              THEN _spawnPickup(s1, inp.loot[enemy.id].kind) ELSE s1
        s3 == [s2 EXCEPT !.wave.killedInWave = @ + 1]
    IN IF s3.wave.killedInWave >= s3.wave.totalToKill /\ Len(s3.enemies) = 0
       THEN triggerBossSequence(s3)
       ELSE s3


RECURSIVE dealDamageTo(_, _, _, _, _)
RECURSIVE triggerExplosion(_, _, _, _)
RECURSIVE ExplosionLoop(_, _, _, _, _)

\* the reference droneTarget holds is to an object that has just died
NoteDead(s, target) ==
    IF s.droneTarget # <<>> /\ s.droneTarget[1].kind = target.kind
                            /\ s.droneTarget[1].id = target.id
    THEN [s EXCEPT !.droneTarget[1].dead = TRUE]
    ELSE s

\* dealDamageTo without the early return on hp <= 0 and without the
\* enemies.includes(target) test: onEnemyDefeated(target, -1) runs for an
\* enemy that has already left, and splice(-1, 1) takes the last element
dealDamageTo_unguarded(s, target, damage, fromExplosion, inp) ==
    IF target.kind = "enemy"
    THEN LET idx == IndexOfId(s.enemies, target.id)
         IN IF idx = 0 THEN s
            ELSE IF s.enemies[idx].type = "kamikaze" /\ ~fromExplosion
            THEN LET s1 == triggerExplosion(s, target.id, s.enemies[idx].damage, inp)
                     i1 == IndexOfId(s1.enemies, target.id)
                     n == Len(s1.enemies)
                 IN IF i1 = 0
                    THEN [s1 EXCEPT !.enemies = IF n = 0 THEN @ ELSE SubSeq(@, 1, n - 1),
                                    !.hist.kills = @ + 1, !.hist.loot = @ + 1,
                                    !.wave.killedInWave = @ + 1]
                    ELSE onEnemyDefeated(NoteDead([s1 EXCEPT !.enemies[i1].hp = 0], target),
                                         i1, inp)
            ELSE LET s1 == [s EXCEPT !.enemies[idx].hp = @ - damage]
                 IN IF s1.enemies[idx].hp <= 0
                    THEN onEnemyDefeated(NoteDead(s1, target), idx, inp)
                    ELSE s1
    ELSE IF s.boss = <<>> \/ s.boss[1].id # target.id THEN s
         ELSE IF s.boss[1].isFinalBoss THEN s
         ELSE LET s1 == [s EXCEPT !.boss[1].hp = @ - damage]
              IN IF s1.boss[1].hp <= 0 THEN onBossDefeated(NoteDead(s1, target)) ELSE s1

\* dealDamageTo without the death branch: the hp is reduced and the target
\* stays where it is
dealDamageTo_undying(s, target, damage, fromExplosion, inp) ==
    IF target.kind = "enemy"
    THEN LET idx == IndexOfId(s.enemies, target.id)
         IN IF idx = 0 THEN s
            ELSE IF s.enemies[idx].hp <= 0 THEN s
            ELSE IF s.enemies[idx].type = "kamikaze" /\ ~fromExplosion
            THEN LET s1 == triggerExplosion(s, target.id, s.enemies[idx].damage, inp)
                     i1 == IndexOfId(s1.enemies, target.id)
                 IN IF i1 = 0 THEN s1 ELSE [s1 EXCEPT !.enemies[i1].hp = 0]
            ELSE [s EXCEPT !.enemies[idx].hp = @ - damage]
    ELSE IF s.boss = <<>> \/ s.boss[1].id # target.id THEN s
         ELSE IF s.boss[1].hp <= 0 THEN s
         ELSE IF s.boss[1].isFinalBoss THEN s
         ELSE [s EXCEPT !.boss[1].hp = @ - damage]

\* dealDamageTo without the branch that spares the final boss
dealDamageTo_mortal(s, target, damage, fromExplosion, inp) ==
    IF target.kind = "enemy"
    THEN LET idx == IndexOfId(s.enemies, target.id)
         IN IF idx = 0 THEN s
            ELSE IF s.enemies[idx].hp <= 0 THEN s
            ELSE IF s.enemies[idx].type = "kamikaze" /\ ~fromExplosion
            THEN LET s1 == triggerExplosion(s, target.id, s.enemies[idx].damage, inp)
                     i1 == IndexOfId(s1.enemies, target.id)
                 IN IF i1 = 0 THEN s1
                    ELSE onEnemyDefeated(NoteDead([s1 EXCEPT !.enemies[i1].hp = 0], target),
                                         i1, inp)
            ELSE LET s1 == [s EXCEPT !.enemies[idx].hp = @ - damage]
                 IN IF s1.enemies[idx].hp <= 0
                    THEN onEnemyDefeated(NoteDead(s1, target), idx, inp)
                    ELSE s1
    ELSE IF s.boss = <<>> \/ s.boss[1].id # target.id THEN s
         ELSE IF s.boss[1].hp <= 0 THEN s
         ELSE LET s1 == [s EXCEPT !.boss[1].hp = @ - damage]
              IN IF s1.boss[1].hp <= 0 THEN onBossDefeated(NoteDead(s1, target)) ELSE s1

\* private dealDamageTo(target, damage, fromExplosion = false).  target is
\* [kind |-> "enemy" or "boss", id |-> the object].  Every caller passes an
\* element of this.enemies or this.boss; an enemy object that is no longer in
\* this.enemies has hp <= 0 (it left through onEnemyDefeated in this handler).
dealDamageTo(s, target, damage, fromExplosion, inp) ==
    IF target.kind = "enemy"
    THEN LET idx == IndexOfId(s.enemies, target.id)
         IN IF idx = 0 THEN s
            ELSE IF s.enemies[idx].hp <= 0 THEN s
            ELSE IF s.enemies[idx].type = "kamikaze" /\ ~fromExplosion
            THEN LET s1 == triggerExplosion(s, target.id, s.enemies[idx].damage, inp)
                     i1 == IndexOfId(s1.enemies, target.id)
                 IN IF i1 = 0 THEN s1     \* target.hp = 0 on an object already removed
                    ELSE onEnemyDefeated(NoteDead([s1 EXCEPT !.enemies[i1].hp = 0], target),
                                         i1, inp)
            ELSE LET s1 == [s EXCEPT !.enemies[idx].hp = @ - damage]
                 IN IF s1.enemies[idx].hp <= 0
                    THEN onEnemyDefeated(NoteDead(s1, target), idx, inp)
                    ELSE s1
    ELSE IF s.boss = <<>> \/ s.boss[1].id # target.id THEN s
         ELSE IF s.boss[1].hp <= 0 THEN s
         ELSE IF s.boss[1].isFinalBoss THEN s     \* can't damage final boss directly
         ELSE LET s1 == [s EXCEPT !.boss[1].hp = @ - damage]
              IN IF s1.boss[1].hp <= 0 THEN onBossDefeated(NoteDead(s1, target)) ELSE s1

\* the for loop of triggerExplosion over this.enemies, from index i down
ExplosionLoop(s, i, within, damage, inp) ==
    IF i = 0 THEN s
    ELSE LET s1 == IF i <= Len(s.enemies) /\ s.enemies[i].id \in within
                   THEN dealDamageTo(s, [kind |-> "enemy", id |-> s.enemies[i].id],
                                     damage, TRUE, inp)
                   ELSE s
         IN ExplosionLoop(s1, i - 1, within, damage, inp)

\* private triggerExplosion(position, radius, damage, options).  center is the
\* enemy at position (always within the radius)
triggerExplosion(s, center, damage, inp) ==
    LET s1 == ExplosionLoop(s, Len(s.enemies), inp.burst \cup {center}, damage, inp)
    IN IF s1.boss # <<>> /\ inp.burstBoss
       THEN IF s1.boss[1].isFinalBoss
            THEN IF inp.burstWeak
                 THEN LET s2 == [s1 EXCEPT !.boss[1].hp = @ - damage,
                                           !.hist.weakHits = @ + 1]
                      IN IF s2.boss[1].hp <= 0
                         THEN onBossDefeated(NoteDead(s2, [kind |-> "boss", id |-> s2.boss[1].id]))
                         ELSE s2
                 ELSE s1
            ELSE dealDamageTo(s1, [kind |-> "boss", id |-> s1.boss[1].id], damage, TRUE, inp)
       ELSE s1

----------------------------------------------------------------------------
(* PlayerController: damage and skills *)

\* App.handleGameOver: setGameState('game_over')
onGameOver(s) == [s EXCEPT !.gameState = "game_over", !.hist.dead = TRUE]

\* playerTakeDamage without the clamp of hp to 0 on death
playerTakeDamage_unclamped(s, amount) ==
    IF s.gameState = "game_over" THEN s
    ELSE IF s.player.shield.active THEN s
    ELSE LET s1 == [s EXCEPT !.player.hp = @ - amount]
         IN IF s1.player.hp <= 0
            THEN onGameOver(exitPointerLock(changeGameState(s1, "game_over")))
            ELSE s1

\* playerTakeDamage without the early return on an active shield
playerTakeDamage_unshielded(s, amount) ==
    IF s.gameState = "game_over" THEN s
    ELSE LET s1 == [s EXCEPT !.player.hp = @ - amount]
         IN IF s1.player.hp <= 0
            THEN onGameOver(exitPointerLock(
                     changeGameState([s1 EXCEPT !.player.hp = 0], "game_over")))
            ELSE s1

\* private playerTakeDamage(amount)
playerTakeDamage(s, amount) ==
    IF s.gameState = "game_over" THEN s
    ELSE IF s.player.shield.active THEN s
    ELSE LET s1 == [s EXCEPT !.player.hp = @ - amount]
         IN IF s1.player.hp <= 0
            THEN onGameOver(exitPointerLock(
                     changeGameState([s1 EXCEPT !.player.hp = 0], "game_over")))
            ELSE s1

\* history: one call of playerTakeDamage
TakeDamage(s, amount, source) ==
    LET r == playerTakeDamage(s, amount)
    IN IF s.player.shield.active
       THEN [r EXCEPT !.hist.shielded = @ + 1,
                      !.hist.blocked = @ \cup {source},
                      !.hist.absorbed = @ /\ r.player.hp = s.player.hp
                                          /\ r.gameState = s.gameState]
       ELSE r

\* private useSkillQ()
useSkillQ(s) ==
    [s EXCEPT !.player.hp = Min2(s.player.maxHp, @ + Cents(SKILL_Q_HEAL)),
              !.player.skills.q.cooldown = SKILL_Q_COOLDOWN]

\* private useSkillZ()
useSkillZ(s) ==
    onMessage([s EXCEPT !.player.skills.z.active = TRUE,
                        !.player.skills.z.duration = SKILL_Z_DURATION,
                        !.player.skills.z.cooldown = SKILL_Z_COOLDOWN], "laser_mode")

\* useSkillG that leaves the cooldown as it is
useSkillG_free(s) ==
    onMessage([s EXCEPT !.player.shield.active = TRUE,
                        !.player.shield.duration = SHIELD_DURATION], "shield_on")

\* private useSkillG()
useSkillG(s) ==
    onMessage([s EXCEPT !.player.shield.active = TRUE,
                        !.player.shield.duration = SHIELD_DURATION,
                        !.player.shield.cooldown = SHIELD_COOLDOWN], "shield_on")

\* private playerShoot(isLaser)
playerShoot(s, isLaser) ==
    [s EXCEPT !.player.ammoInMagazine = IF isLaser THEN @ ELSE @ - 1,
              !.player.lastShotTime = s.clock.elapsedTime,
              !.bullets = Append(@, [isLaser |-> isLaser]),
              !.hist.shot = TRUE]

\* playerMeleeAttack without the test of isAiming
playerMeleeAttack_aiming(s) ==
    IF s.player.melee.cooldown > 0 \/ s.player.melee.attacking
    THEN s
    ELSE SetTimeout([s EXCEPT !.player.melee.cooldown = MELEE_COOLDOWN,
                              !.player.melee.attacking = TRUE,
                              !.player.melee.swingTime = MELEE_SWING_DURATION],
                    "meleeHit", 15, 0, <<>>, NoBossData)

\* private playerMeleeAttack(), without the callback it schedules
playerMeleeAttack(s) ==
    IF s.player.melee.cooldown > 0 \/ s.player.melee.attacking \/ s.player.isAiming
    THEN s
    ELSE SetTimeout([s EXCEPT !.player.melee.cooldown = MELEE_COOLDOWN,
                              !.player.melee.attacking = TRUE,
                              !.player.melee.swingTime = MELEE_SWING_DURATION],
                    "meleeHit", 15, 0, <<>>, NoBossData)

RECURSIVE MeleeLoop(_, _, _)
\* the for loop of the callback playerMeleeAttack schedules, from index j down;
\* inp.melee: the enemies (ids) within range and cone
MeleeLoop(s, j, inp) ==
    IF j = 0 THEN s
    ELSE LET s1 == IF j <= Len(s.enemies) /\ s.enemies[j].id \in inp.melee
                   THEN dealDamageTo(s, [kind |-> "enemy", id |-> s.enemies[j].id],
                                     Cents(MELEE_DAMAGE), FALSE, inp)
                   ELSE s
         IN MeleeLoop(s1, j - 1, inp)

\* the callback playerMeleeAttack schedules (SWING_DURATION / 2 later)
meleeHit(s, inp) ==
    LET s1 == MeleeLoop(s, Len(s.enemies), inp)
        r == dealDamageTo(s1, [kind |-> "boss", id |-> s1.boss[1].id],
                          Cents(MELEE_DAMAGE), FALSE, inp)
    IN IF s1.boss # <<>> /\ inp.meleeBoss
       THEN IF s1.boss[1].isFinalBoss
            \* history: a damage call on the body of the final boss
            THEN [r EXCEPT !.hist.bodyHits = @ + 1,
                           !.hist.bodyHeld = @ /\ r.boss = s1.boss
                                               /\ r.hist.bossDeaths = s1.hist.bossDeaths]
            ELSE r
       ELSE s1

----------------------------------------------------------------------------
(* PlayerController: the per-frame update *)

MoveKeys == {"KeyW", "KeyA", "KeyS", "KeyD"}

\* the reload that fills the magazine whatever the reserve holds
updateReload_full(s, dt) ==
    IF s.player.reloading
    THEN LET s1 == [s EXCEPT !.player.isAiming = FALSE, !.player.reloadTime = @ - dt]
         IN IF s1.player.reloadTime <= 0
            THEN LET ammoNeeded == s1.player.maxAmmoInMagazine - s1.player.ammoInMagazine
                 IN [s1 EXCEPT !.player.ammoInMagazine = @ + ammoNeeded,
                               !.player.reserveAmmo = @ - ammoNeeded,
                               !.player.reloading = FALSE, !.player.reloadTime = 0]
            ELSE s1
    ELSE IF "KeyR" \in s.keys /\ s.player.reserveAmmo > 0
            /\ s.player.ammoInMagazine < s.player.maxAmmoInMagazine
         THEN onMessage([s EXCEPT !.player.reloading = TRUE,
                                  !.player.reloadTime = WeaponConfig(s.weaponLevel).RELOAD_TIME],
                        "reloading")
         ELSE s

\* updatePlayer, lines 722-732: reload
updateReload(s, dt) ==
    IF s.player.reloading
    THEN LET s1 == [s EXCEPT !.player.isAiming = FALSE, !.player.reloadTime = @ - dt]
         IN IF s1.player.reloadTime <= 0
            THEN LET ammoNeeded == s1.player.maxAmmoInMagazine - s1.player.ammoInMagazine
                     ammoToReload == Min2(ammoNeeded, s1.player.reserveAmmo)
                 IN [s1 EXCEPT !.player.ammoInMagazine = @ + ammoToReload,
                               !.player.reserveAmmo = @ - ammoToReload,
                               !.player.reloading = FALSE, !.player.reloadTime = 0]
            ELSE s1
    ELSE IF "KeyR" \in s.keys /\ s.player.reserveAmmo > 0
            /\ s.player.ammoInMagazine < s.player.maxAmmoInMagazine
         THEN onMessage([s EXCEPT !.player.reloading = TRUE,
                                  !.player.reloadTime = WeaponConfig(s.weaponLevel).RELOAD_TIME],
                        "reloading")
         ELSE s

\* updatePlayer, lines 734-758: sprint, stamina, gravity, ground clamp, jump
updateLocomotion(s, dt) ==
    LET sprinting == "ShiftLeft" \in s.keys /\ ~s.player.isAiming
        isMoving == s.keys \cap MoveKeys # {}
        stamina == IF sprinting /\ isMoving
                   THEN s.player.stamina - STAMINA_COST * dt
                   ELSE s.player.stamina + STAMINA_REGEN * dt
        vy == s.player.velocityY - GRAVITY * dt
        y == s.posY + vy * dt
        landed == y < 16000
        s1 == [s EXCEPT !.player.sprinting = sprinting,
                        !.player.stamina = Max2(0, Min2(Cents(PLAYER_STAMINA), stamina)),
                        !.player.velocityY = IF landed THEN 0 ELSE vy,
                        !.posY = IF landed THEN 16000 ELSE y,
                        !.player.onGround = IF landed THEN TRUE ELSE @]
    IN IF "Space" \in s1.keys /\ s1.player.onGround
       THEN [s1 EXCEPT !.player.velocityY = JUMP_FORCE * 100, !.player.onGround = FALSE]
       ELSE s1

\* the fire branch without the test of the magazine
updateFire_unchecked(s) ==
    LET shootCooldown == IF s.player.skills.z.active THEN LASER_COOLDOWN
                         ELSE WeaponConfig(s.weaponLevel).COOLDOWN
        canShoot == s.clock.elapsedTime > s.player.lastShotTime + shootCooldown
    IN IF "mouse0" \in s.keys /\ canShoot /\ ~s.player.reloading /\ ~s.player.melee.attacking
       THEN IF s.player.skills.z.active THEN playerShoot(s, TRUE)
            ELSE LET s1 == playerShoot(s, FALSE)
                 IN IF s1.weaponLevel = 1 \/ s1.isNewGamePlus
                    THEN [s1 EXCEPT !.keys = @ \ {"mouse0"}]
                    ELSE s1
       ELSE s

\* updatePlayer, lines 766-774: fire
updateFire(s) ==
    LET shootCooldown == IF s.player.skills.z.active THEN LASER_COOLDOWN
                         ELSE WeaponConfig(s.weaponLevel).COOLDOWN
        canShoot == s.clock.elapsedTime > s.player.lastShotTime + shootCooldown
    IN IF "mouse0" \in s.keys /\ canShoot /\ ~s.player.reloading /\ ~s.player.melee.attacking
       THEN IF s.player.skills.z.active THEN playerShoot(s, TRUE)
            ELSE IF s.player.ammoInMagazine > 0
            THEN LET s1 == playerShoot(s, FALSE)
                 IN IF s1.weaponLevel = 1 \/ s1.isNewGamePlus
                    THEN [s1 EXCEPT !.keys = @ \ {"mouse0"}]
                    ELSE s1
            ELSE s
       ELSE s

\* updatePlayer, lines 776-779: melee and skill intents
updateIntents(s) ==
    LET s1 == IF "KeyF" \in s.keys THEN playerMeleeAttack(s) ELSE s
        s2 == IF "KeyQ" \in s1.keys /\ s1.player.skills.q.unlocked
                 /\ s1.player.skills.q.cooldown <= 0
              THEN useSkillQ(s1) ELSE s1
        s3 == IF "KeyZ" \in s2.keys /\ s2.player.skills.z.unlocked
                 /\ s2.player.skills.z.cooldown <= 0
              THEN useSkillZ(s2) ELSE s2
    IN IF "KeyG" \in s3.keys /\ s3.player.shield.unlocked /\ s3.player.shield.cooldown <= 0
       THEN useSkillG(s3) ELSE s3

\* private updatePlayer(deltaTime)
updatePlayer(s, dt) == updateIntents(updateFire(updateLocomotion(updateReload(s, dt), dt)))

\* private updateSkills(deltaTime)
updateSkills(s, dt) ==
    LET p == s.player
        zDur == p.skills.z.duration - dt
        gDur == p.shield.duration - dt
    IN [s EXCEPT
          !.player.skills.q.cooldown = IF @ > 0 THEN @ - dt ELSE @,
          !.player.skills.z.cooldown = IF @ > 0 THEN @ - dt ELSE @,
          !.player.skills.z.duration = IF p.skills.z.active THEN zDur ELSE @,
          !.player.skills.z.active = IF p.skills.z.active /\ zDur <= 0 THEN FALSE ELSE @,
          !.player.shield.cooldown = IF @ > 0 THEN @ - dt ELSE @,
          !.player.shield.duration = IF p.shield.active THEN gDur ELSE @,
          !.player.shield.active = IF p.shield.active /\ gDur <= 0 THEN FALSE ELSE @]

\* private updateMelee(deltaTime)
updateMelee(s, dt) ==
    LET m == s.player.melee
        swing == m.swingTime - dt
    IN [s EXCEPT
          !.player.melee.cooldown = IF @ > 0 THEN @ - dt ELSE @,
          !.player.melee.swingTime = IF m.attacking THEN swing ELSE @,
          !.player.melee.attacking = IF m.attacking /\ swing <= 0 THEN FALSE ELSE @]

----------------------------------------------------------------------------
(* WaveDirector: spawning *)

\* the type spawnEnemy draws; roll is Math.random() in percent
SpawnType(level, roll) ==
    IF level < 3 THEN (IF roll < 60 THEN "drone" ELSE "scout")
    ELSE IF level = 3 THEN (IF roll < 40 THEN "drone" ELSE IF roll < 80 THEN "scout" ELSE "tank")
    ELSE (IF roll < 30 THEN "drone" ELSE IF roll < 60 THEN "scout"
          ELSE IF roll < 85 THEN "tank" ELSE "kamikaze")

\* a fresh object identity: the least number no live reference holds
FreshId(s) ==
    LET used == {s.enemies[k].id : k \in 1..Len(s.enemies)}
                \cup (IF s.droneTarget # <<>> /\ s.droneTarget[1].kind = "enemy"
                      THEN {s.droneTarget[1].id} ELSE {})
    IN CHOOSE n \in 1..(Cardinality(used) + 1) : n \notin used

\* private spawnEnemy()
spawnEnemy(s, inp) ==
    LET type == SpawnType(s.currentLevel, inp.spawn)
        cfg == EnemyConfig(type)
        scale == IF s.isNewGamePlus THEN 12 ELSE 10
        f == 10 + (s.currentLevel - 1)
    IN [s EXCEPT !.enemies = Append(@, [id |-> FreshId(s), type |-> type,
                                        hp |-> cfg.HP * scale * f,
                                        damage |-> cfg.DAMAGE * scale * f]),
                 !.hist.spawned = @ + 1]

\* updateWaveSpawning without the test of maxConcurrent
updateWaveSpawning_uncapped(s, dt, inp) ==
    IF s.wave.spawnedInWave >= s.wave.totalToKill
    THEN s
    ELSE LET s1 == [s EXCEPT !.wave.spawnTimer = @ - dt]
         IN IF s1.wave.spawnTimer <= 0
            THEN [spawnEnemy([s1 EXCEPT !.wave.spawnTimer = s1.wave.spawnInterval], inp)
                     EXCEPT !.wave.spawnedInWave = @ + 1]
            ELSE s1

\* private updateWaveSpawning(deltaTime)
updateWaveSpawning(s, dt, inp) ==
    IF s.wave.spawnedInWave >= s.wave.totalToKill \/ Len(s.enemies) >= s.wave.maxConcurrent
    THEN s
    ELSE LET s1 == [s EXCEPT !.wave.spawnTimer = @ - dt]
         IN IF s1.wave.spawnTimer <= 0
            THEN [spawnEnemy([s1 EXCEPT !.wave.spawnTimer = s1.wave.spawnInterval], inp)
                     EXCEPT !.wave.spawnedInWave = @ + 1]
            ELSE s1

----------------------------------------------------------------------------
(* EntityRegistry and CollisionResolver.  Inputs of a frame (inp), besides  *)
(* those of the DamageModel:                                                *)
(*   fate[i]   where player bullet i is: "fly", "gone" (beyond range),      *)
(*             "enemy" (within e.size of enemy id), "boss" (within the      *)
(*             boss's radius), "weak" (within 1.5 of the weak point)        *)
(*   dfate[i]  the same for drone bullet i                                  *)
(*   extra     the same for the drone bullet fired in this frame            *)
(*   bbHit, bbGone   how many boss bullets reach the player / leave         *)
(*   touch     the last enemy of this.enemies touching the player (0: none) *)
(*   bossTouch the boss touches the player                                  *)
(*   picked    the pickups (indices) within 1.5 of the player               *)
(*   inBand    the hazards (indices of particles) whose hit test is true    *)
(*   spawn, attack   Math.random() of spawnEnemy / executeBossAttack        *)
(*   inRange, nearest   drone: current target within RANGE; nearest target  *)

\* the elements of q whose index is not in gone
Without(q, gone) ==
    LET keep == {k \in 1..Len(q) : k \notin gone}
        rank(k) == Cardinality({j \in keep : j <= k})
    IN [n \in 1..Cardinality(keep) |-> q[CHOOSE k \in keep : rank(k) = n]]

\* private updateBullets(deltaTime)
updateBullets(s, inp) ==
    [s EXCEPT !.bullets = Without(@, {i \in 1..Len(@) : inp.fate[i].t = "gone"}),
              !.droneBullets = Without(@, {i \in 1..Len(@) : inp.dfate[i].t = "gone"})]

\* the fates of the bullets that are left after updateBullets
Flying(fate) == SelectSeq(fate, LAMBDA f : f.t # "gone")

\* _checkBulletCollisions: one player bullet
bulletCollision(s, i, f, inp) ==
    LET b == s.bullets[i]
        dmg == IF b.isLaser THEN Cents(LASER_DAMAGE)
               ELSE Cents(WeaponConfig(s.weaponLevel).DAMAGE)
        hitEnemy == f.t = "enemy" /\ IndexOfId(s.enemies, f.id) # 0
        hitBoss == ~hitEnemy /\ s.boss # <<>>
                   /\ IF s.boss[1].isFinalBoss THEN f.t = "weak" ELSE f.t = "boss"
        s1 == IF hitEnemy
              THEN dealDamageTo(s, [kind |-> "enemy", id |-> f.id], dmg, FALSE, inp)
              ELSE IF hitBoss
              THEN LET s2 == [s EXCEPT !.boss[1].hp = @ - dmg,
                                       !.hist.weakHits = IF f.t = "weak" THEN @ + 1 ELSE @]
                   IN IF s2.boss[1].hp <= 0
                      THEN onBossDefeated(NoteDead(s2, [kind |-> "boss", id |-> s2.boss[1].id]))
                      ELSE s2
              ELSE s
    IN IF (hitEnemy \/ hitBoss) /\ ~b.isLaser
       THEN [s1 EXCEPT !.bullets = Splice(@, i)]
       ELSE s1

\* _checkBulletCollisions: one drone bullet
droneBulletCollision(s, i, f, inp) ==
    LET hitEnemy == f.t = "enemy" /\ IndexOfId(s.enemies, f.id) # 0
        hitWeak == ~hitEnemy /\ s.boss # <<>> /\ s.boss[1].isFinalBoss /\ f.t = "weak"
        hitBoss == ~hitEnemy /\ s.boss # <<>> /\ ~s.boss[1].isFinalBoss /\ f.t = "boss"
        s1 == IF hitEnemy
              THEN dealDamageTo(s, [kind |-> "enemy", id |-> f.id], Cents(DRONE_DAMAGE),
                                FALSE, inp)
              ELSE IF hitWeak
              THEN LET s2 == [s EXCEPT !.boss[1].hp = @ - Cents(DRONE_DAMAGE),
                                       !.hist.weakHits = @ + 1]
                   IN IF s2.boss[1].hp <= 0
                      THEN onBossDefeated(NoteDead(s2, [kind |-> "boss", id |-> s2.boss[1].id]))
                      ELSE s2
              ELSE IF hitBoss
              THEN dealDamageTo(s, [kind |-> "boss", id |-> s.boss[1].id],
                                Cents(DRONE_DAMAGE), FALSE, inp)
              ELSE s
    IN IF hitEnemy \/ hitWeak \/ hitBoss
       THEN [s1 EXCEPT !.droneBullets = Splice(@, i)]
       ELSE s1

RECURSIVE BulletLoop(_, _, _, _)
BulletLoop(s, i, fate, inp) ==
    IF i = 0 THEN s ELSE BulletLoop(bulletCollision(s, i, fate[i], inp), i - 1, fate, inp)

RECURSIVE DroneBulletLoop(_, _, _, _)
DroneBulletLoop(s, i, fate, inp) ==
    IF i = 0 THEN s
    ELSE DroneBulletLoop(droneBulletCollision(s, i, fate[i], inp), i - 1, fate, inp)

\* private _checkBulletCollisions()
_checkBulletCollisions(s, inp) ==
    LET s1 == BulletLoop(s, Len(s.bullets), Flying(inp.fate), inp)
    IN DroneBulletLoop(s1, Len(s1.droneBullets), Flying(inp.dfate) \o inp.extra, inp)

RECURSIVE BossBulletLoop(_, _)
\* the loop of _checkBossBulletCollisions: n bullets are within 1.5 of the player
BossBulletLoop(s, n) ==
    IF n = 0 \/ s.bossBullets = <<>> THEN s
    ELSE IF s.currentLevel \notin 1..MAX_LEVEL THEN Throw(s)   \* bossConfig is undefined
    ELSE BossBulletLoop(
           [TakeDamage(s, Cents(BossConfig(s.currentLevel).BULLET_DAMAGE), "projectile")
               EXCEPT !.bossBullets = Splice(@, Len(@))],
           n - 1)

\* private _checkBossBulletCollisions()
_checkBossBulletCollisions(s, inp) == BossBulletLoop(s, inp.bbHit)

RECURSIVE PickupLoop(_, _, _)
\* the pickup loop of _checkPlayerCollisions, from index i down
PickupLoop(s, i, picked) ==
    IF i = 0 THEN s
    ELSE IF i \in picked
    THEN LET pk == s.pickups[i]
             s1 == IF pk.type = "ammo"
                   THEN [s EXCEPT !.player.reserveAmmo =
                                     @ + WeaponConfig(s.weaponLevel).PICKUP_AMMO_AMOUNT]
                   ELSE s
             s2 == IF pk.type = "health"
                   THEN [s1 EXCEPT !.player.hp = Min2(s1.player.maxHp, @ + Cents(HEALTH_AMOUNT))]
                   ELSE s1
         IN PickupLoop([s2 EXCEPT !.pickups = Splice(@, i)], i - 1, picked)
    ELSE PickupLoop(s, i - 1, picked)

\* contact damage whose immunity window ends at DAMAGE_IMMUNITY sharp
contactDamage_lax(s, inp) ==
    LET now == s.clock.elapsedTime
        idx == IndexOfId(s.enemies, inp.touch)
    IN IF now >= s.player.lastHitTime + DAMAGE_IMMUNITY
       THEN IF idx # 0
            THEN LET e == s.enemies[idx]
                     s1 == IF e.type = "kamikaze"
                           THEN dealDamageTo(s, [kind |-> "enemy", id |-> e.id], e.hp, FALSE, inp)
                           ELSE TakeDamage(s, e.damage, "enemy")
                 IN [s1 EXCEPT !.player.lastHitTime = now, !.hist.contacts = @ + 1]
            ELSE IF s.boss # <<>> /\ inp.bossTouch
            THEN [TakeDamage(s, s.boss[1].damage, "boss") EXCEPT !.player.lastHitTime = now,
                                                         !.hist.contacts = @ + 1]
            ELSE s
       ELSE s

\* history: the kamikaze that touched the player and what its burst reaches
NoteBlast(s, e, inp) ==
    [s EXCEPT !.hist.blast = @ \cup {[id |-> e.id, within |-> inp.burst]}]

\* contact damage in which the kamikaze also deals its contact damage
contactDamage_bruising(s, inp) ==
    LET now == s.clock.elapsedTime
        idx == IndexOfId(s.enemies, inp.touch)
    IN IF now > s.player.lastHitTime + DAMAGE_IMMUNITY
       THEN IF idx # 0
            THEN LET e == s.enemies[idx]
                     s1 == IF e.type = "kamikaze"
                           THEN TakeDamage(
                                  dealDamageTo(NoteBlast(s, e, inp),
                                               [kind |-> "enemy", id |-> e.id], e.hp, FALSE, inp),
                                  e.damage, "enemy")
                           ELSE TakeDamage(s, e.damage, "enemy")
                 IN [s1 EXCEPT !.player.lastHitTime = now, !.hist.contacts = @ + 1]
            ELSE IF s.boss # <<>> /\ inp.bossTouch
            THEN [TakeDamage(s, s.boss[1].damage, "boss") EXCEPT !.player.lastHitTime = now,
                                                         !.hist.contacts = @ + 1]
            ELSE s
       ELSE s

\* _checkPlayerCollisions: contact damage
contactDamage(s, inp) ==
    LET now == s.clock.elapsedTime
        idx == IndexOfId(s.enemies, inp.touch)
    IN IF now > s.player.lastHitTime + DAMAGE_IMMUNITY
       THEN IF idx # 0
            THEN LET e == s.enemies[idx]
                     s1 == IF e.type = "kamikaze"
                           THEN dealDamageTo(NoteBlast(s, e, inp),
                                             [kind |-> "enemy", id |-> e.id], e.hp, FALSE, inp)
                           ELSE TakeDamage(s, e.damage, "enemy")
                 IN [s1 EXCEPT !.player.lastHitTime = now, !.hist.contacts = @ + 1]
            ELSE IF s.boss # <<>> /\ inp.bossTouch
            THEN [TakeDamage(s, s.boss[1].damage, "boss") EXCEPT !.player.lastHitTime = now,
                                                         !.hist.contacts = @ + 1]
            ELSE s
       ELSE s

\* private _checkPlayerCollisions()
_checkPlayerCollisions(s, inp) ==
    LET s1 == contactDamage(s, inp)
    IN PickupLoop(s1, Len(s1.pickups), inp.picked)

\* private checkCollisions()
checkCollisions(s, inp) ==
    _checkPlayerCollisions(_checkBossBulletCollisions(_checkBulletCollisions(s, inp), inp), inp)

----------------------------------------------------------------------------
(* BossEncounter: attacks; hazards; DroneCompanion *)

\* private bossShootSimple(direction, isLaser = false)
bossShootSimple(s, isLaser) ==
    IF s.boss = <<>> THEN s
    ELSE IF s.currentLevel \notin 1..MAX_LEVEL THEN Throw(s)
    ELSE [s EXCEPT !.bossBullets = Append(@, [isLaser |-> isLaser])]

\* a hazard pushed to this.particles (hits: history, the times it has hurt
\* the player)
Hazard(kind, lifespan, damage) ==
    [kind |-> kind, lifespan |-> lifespan, damage |-> damage, hits |-> 0]

\* private executeBossAttack(deltaTime)
executeBossAttack(s, inp) ==
    IF s.boss = <<>> THEN s
    ELSE IF s.currentLevel \notin 1..MAX_LEVEL THEN Throw(s)   \* cfg is undefined
    ELSE
      LET L == s.currentLevel
          cfg == BossConfig(L)
          s1 == [s EXCEPT !.boss[1].attackTimer = cfg.ATTACK_COOLDOWN]
          five == bossShootSimple(bossShootSimple(bossShootSimple(bossShootSimple(
                      bossShootSimple(s1, FALSE), FALSE), FALSE), FALSE), FALSE)
      IN CASE L = 1 -> bossShootSimple(s1, FALSE)
           [] L = 2 -> five
           [] L = 3 -> [bossShootSimple(s1, FALSE) EXCEPT
                           !.particles = Append(@, Hazard("shockwave", 300, cfg.BULLET_DAMAGE))]
           [] L = 4 -> [bossShootSimple(s1, TRUE) EXCEPT
                           !.particles = Append(@, Hazard("ring", 400, cfg.BULLET_DAMAGE))]
           [] L = 5 -> IF inp.attack < 50      \* Math.floor(Math.random() * 2) === 0
                       THEN SetTimeout(s1, "bossRing", 0, 0, <<>>, NoBossData)
                       ELSE [s1 EXCEPT
                               !.particles = Append(@, Hazard("laser", 500, cfg.BULLET_DAMAGE))]

\* the 20 callbacks of the tier-5 ring burst, due i * 50 ms after the attack:
\* kept as one pending callback that schedules the next one
bossRing(s, index) ==
    LET s1 == bossShootSimple(s, FALSE)
    IN IF index < 19
       THEN SetTimeout(s1, "bossRing", 5, index + 1, <<>>, NoBossData)
       ELSE s1

\* private updateBoss(deltaTime)
updateBoss(s, dt, inp) ==
    IF s.boss = <<>> THEN s
    ELSE LET s1 == [s EXCEPT !.boss[1].attackTimer = @ - dt]
         IN IF s1.boss[1].attackTimer <= 0 THEN executeBossAttack(s1, inp) ELSE s1

\* private updateBossBullets(deltaTime): inp.bbGone bullets leave (range, walls)
updateBossBullets(s, inp) ==
    [s EXCEPT !.bossBullets = SubSeq(@, 1, Len(@) - Min2(inp.bbGone, Len(@)))]

\* history: hazard i of s has or has not just hurt the player, who had hp
\* and was or was not grounded
NoteHazard(s, i, hp, grounded) ==
    IF s.player.hp < hp
    THEN [s EXCEPT !.particles[i].hits = @ + 1,
                   !.hist.hazards = @ \cup {[kind |-> s.particles[i].kind,
                                             grounded |-> grounded,
                                             before |-> s.particles[i].hits,
                                             removed |-> s.particles[i].lifespan <= 0]}]
    ELSE s

\* updateParticles: one hazard, with a ring that hits in the air as well
updateHazard_airborne(s, i, dt, inp) ==
    LET p == [s.particles[i] EXCEPT !.lifespan = @ - dt]
        hit == i \in inp.inBand
        s1 == [s EXCEPT !.particles[i] = p]
        s2 == CASE p.kind = "shockwave" ->
                     IF hit THEN TakeDamage(s1, Cents(p.damage), p.kind) ELSE s1
                [] p.kind = "ring" ->
                     IF hit
                     THEN [TakeDamage(s1, Cents(p.damage), p.kind) EXCEPT !.particles[i].lifespan = 0]
                     ELSE s1
                [] p.kind = "laser" ->
                     IF hit THEN TakeDamage(s1, p.damage * dt, p.kind) ELSE s1
        s3 == NoteHazard(s2, i, s1.player.hp, s1.player.onGround)
    IN IF s3.particles[i].lifespan <= 0
       THEN [s3 EXCEPT !.particles = Splice(@, i)]
       ELSE s3

\* updateParticles: one hazard
updateHazard(s, i, dt, inp) ==
    LET p == [s.particles[i] EXCEPT !.lifespan = @ - dt]
        hit == i \in inp.inBand
        s1 == [s EXCEPT !.particles[i] = p]
        s2 == CASE p.kind = "shockwave" ->
                     IF hit THEN TakeDamage(s1, Cents(p.damage), p.kind) ELSE s1
                [] p.kind = "ring" ->
                     IF s1.player.onGround /\ hit
                     THEN [TakeDamage(s1, Cents(p.damage), p.kind) EXCEPT !.particles[i].lifespan = 0]
                     ELSE s1
                [] p.kind = "laser" ->
                     IF hit THEN TakeDamage(s1, p.damage * dt, p.kind) ELSE s1
        s3 == NoteHazard(s2, i, s1.player.hp, s1.player.onGround)
    IN IF s3.particles[i].lifespan <= 0
       THEN [s3 EXCEPT !.particles = Splice(@, i)]
       ELSE s3

RECURSIVE ParticleLoop(_, _, _, _)
ParticleLoop(s, i, dt, inp) ==
    IF i = 0 THEN s ELSE ParticleLoop(updateHazard(s, i, dt, inp), i - 1, dt, inp)

\* private updateParticles(deltaTime)
updateParticles(s, dt, inp) == ParticleLoop(s, Len(s.particles), dt, inp)

\* private findDroneTarget(): inp.nearest is the nearest enemy within RANGE,
\* or the boss when it is nearer, or nothing
findDroneTarget(s, inp) ==
    LET n == inp.nearest
        ok == \/ n.kind = "enemy" /\ IndexOfId(s.enemies, n.id) # 0
              \/ n.kind = "boss" /\ s.boss # <<>>
    IN [s EXCEPT !.droneTarget =
          IF ok THEN <<[kind |-> n.kind,
                        id |-> IF n.kind = "boss" THEN s.boss[1].id ELSE n.id,
                        dead |-> FALSE, run |-> s.epoch]>>
          ELSE <<>>]

\* the object droneTarget refers to is an enemy of the enemies collection
\* with hp > 0 or the boss that is present, made in the current run
LiveTarget(s) ==
    LET t == s.droneTarget[1]
        k == IF t.kind = "enemy" THEN IndexOfId(s.enemies, t.id) ELSE 0
    IN /\ ~t.dead
       /\ t.run = s.epoch
       /\ t.kind = "enemy" => k # 0 /\ s.enemies[k].hp > 0
       /\ t.kind = "boss" => s.boss # <<>> /\ s.boss[1].id = t.id

\* private droneShoot()
droneShoot(s) ==
    IF ~s.drone \/ s.droneTarget = <<>> THEN s
    ELSE [s EXCEPT !.droneBullets = Append(@, [target |-> s.droneTarget[1].kind]),
                   !.hist.aimed = @ \cup {[kind |-> s.droneTarget[1].kind,
                                            run |-> s.droneTarget[1].run,
                                            live |-> LiveTarget(s)]}]

\* private updateDrone(deltaTime)
updateDrone(s, inp) ==
    IF ~s.drone THEN s
    ELSE LET now == s.clock.elapsedTime
         IN IF now > s.lastDroneShotTime + DRONE_FIRE_RATE
            THEN LET s1 == IF s.droneTarget = <<>> \/ s.droneTarget[1].dead \/ ~inp.inRange
                           THEN findDroneTarget(s, inp) ELSE s
                 IN IF s1.droneTarget # <<>>
                    THEN [droneShoot(s1) EXCEPT !.lastDroneShotTime = now]
                    ELSE s1
            ELSE s

----------------------------------------------------------------------------
(* The frame: Game.animate *)

\* THREE.Clock.getDelta(): the value it returns after dt of wall time
Delta(s, dt) == IF s.clock.running THEN dt ELSE 0

\* THREE.Clock.getDelta(): its effect on the clock.  A clock that is not
\* running is started (elapsedTime = 0) when autoStart is set
getDelta(s, dt) ==
    IF s.clock.running THEN [s EXCEPT !.clock.elapsedTime = @ + dt]
    ELSE IF s.clock.autoStart
    THEN [s EXCEPT !.clock.running = TRUE, !.clock.elapsedTime = 0]
    ELSE s

\* animate, lines 496-505: the block run in playing and boss_fight, cut where
\* the inputs of the next part are drawn
framePlayer(s, dt) ==
    LET r == updatePlayer(s, dt)
    IN [r EXCEPT !.hist.swinging = s.player.melee.attacking \/ r.player.melee.attacking]

frameBullets(s, inp) ==
    LET s1 == updateBullets(s, inp)
    IN IF s1.player.drone.unlocked THEN updateDrone(s1, inp) ELSE s1

frameBulletHits(s, inp) ==
    Do(_checkBulletCollisions(s, inp), LAMBDA x : _checkBossBulletCollisions(x, inp))

frameContacts(s, dt, inp) ==
    Do(Do(s, LAMBDA x : _checkPlayerCollisions(x, inp)),
       LAMBDA x : updateMelee(updateSkills(x, dt), dt))

\* animate, lines 508-509: spawning and the boss
frameDirector(s, dt, inp) ==
    LET s1 == IF s.gameState = "playing"
              THEN Do(s, LAMBDA x : updateWaveSpawning(x, dt, inp)) ELSE s
    IN IF s1.gameState = "boss_fight" /\ s1.boss # <<>>
       THEN Do(Do(s1, LAMBDA x : updateBoss(x, dt, inp)),
               LAMBDA x : updateBossBullets(x, inp))
       ELSE s1

\* animate, line 512
frameParticles(s, dt, inp) == Do(s, LAMBDA x : updateParticles(x, dt, inp))

----------------------------------------------------------------------------
(* The inputs of a handler.  A profile R names the inputs a specification   *)
(* explores:                                                                *)
(*   dts      frame periods (centiseconds)                                  *)
(*   until    the wall-clock time up to which frames are explored           *)
(*   fates    fates of bullets                                              *)
(*   loots    loot rolls [drop, kind]                                       *)
(*   spawns, attacks   rolls of spawnEnemy / executeBossAttack              *)
(*   bursts, melees, picks, bands   "none", "one", "all", "all or none" or  *)
(*            "any" of the candidates are within the burst / the swing /    *)
(*            reach / a hazard                                              *)
(*   touches  what may touch the player: "enemy", "boss"                    *)
(*   bbHits, bbGones   boss bullets may reach the player / leave            *)
(*   nearests what the drone may find: "none", "enemy", "boss"              *)
(*   inRanges whether the drone's target may be in / out of range           *)
(*   keys     the keys and buttons pressed                                  *)
(*   outcomes outcomes of the boss-intro request                            *)
(*   locks    outcomes of requestPointerLock                                *)

Choice(mode, S) ==
    CASE mode = "none" -> {{}}
      [] mode = "one"  -> {{}} \cup {{x} : x \in S}
      [] mode = "all"  -> {S}
      [] mode = "all or none" -> {{}, S}
      [] mode = "any"  -> SUBSET S

EnemyIds(s) == {s.enemies[k].id : k \in 1..Len(s.enemies)}

Kamikazes(s) == {k \in 1..Len(s.enemies) : s.enemies[k].type = "kamikaze"}

Fly == [t |-> "fly", id |-> 0]

FateChoices(s, R) ==
    LET plain == {"fly", "gone"} \cup
                 (IF s.boss = <<>> THEN {}
                  ELSE IF s.boss[1].isFinalBoss THEN {"weak"} ELSE {"boss"})
        fs == {[t |-> x, id |-> 0] : x \in R.fates \cap plain} \cup
              (IF "enemy" \in R.fates
               THEN {[t |-> "enemy", id |-> i] : i \in EnemyIds(s)} ELSE {})
    IN IF fs = {} THEN {Fly} ELSE fs

NearestChoices(s, R) ==
    LET ns == (IF "none" \in R.nearests THEN {[kind |-> "none", id |-> 0]} ELSE {}) \cup
              (IF "enemy" \in R.nearests
               THEN {[kind |-> "enemy", id |-> i] : i \in EnemyIds(s)} ELSE {}) \cup
              (IF "boss" \in R.nearests /\ s.boss # <<>>
               THEN {[kind |-> "boss", id |-> 0]} ELSE {})
    IN IF ns = {} THEN {[kind |-> "none", id |-> 0]} ELSE ns

\* inputs of updateBullets and updateDrone
BulletInputs(s, R) ==
    [fate : [1..Len(s.bullets) -> FateChoices(s, R)],
     dfate : [1..Len(s.droneBullets) -> FateChoices(s, R)],
     inRange : IF s.drone /\ s.droneTarget # <<>> THEN R.inRanges ELSE {TRUE},
     nearest : IF s.drone /\ s.player.drone.unlocked
               THEN NearestChoices(s, R) ELSE {[kind |-> "none", id |-> 0]}]

\* inputs of the DamageModel
DamageInputs(s, R) ==
    [loot : [EnemyIds(s) -> R.loots],
     burst : IF Kamikazes(s) = {} THEN {{}} ELSE Choice(R.bursts, EnemyIds(s)),
     burstBoss : IF Kamikazes(s) = {} \/ s.boss = <<>> \/ R.bursts = "none"
                 THEN {FALSE} ELSE BOOLEAN,
     burstWeak : IF Kamikazes(s) = {} \/ s.boss = <<>> \/ R.bursts = "none"
                    \/ ~s.boss[1].isFinalBoss
                 THEN {FALSE} ELSE BOOLEAN]

\* inputs of _checkBulletCollisions and _checkBossBulletCollisions; a is the
\* input of updateBullets
HitInputs(s, a, R) ==
    {d @@ e : d \in DamageInputs(s, R),
              e \in [extra : [1..(Len(s.droneBullets) - Len(Flying(a.dfate)))
                                -> FateChoices(s, R)],
                     bbHit : IF R.bbHits THEN 0..Len(s.bossBullets) ELSE {0}]}

\* inputs of _checkPlayerCollisions
ContactInputs(s, R) ==
    [touch : {0} \cup (IF "enemy" \in R.touches THEN EnemyIds(s) ELSE {}),
     bossTouch : IF "boss" \in R.touches /\ s.boss # <<>> THEN BOOLEAN ELSE {FALSE},
     picked : Choice(R.picks, 1..Len(s.pickups))]

\* inputs of updateWaveSpawning, updateBoss and updateBossBullets
DirectorInputs(s, R) ==
    [spawn : IF s.gameState = "playing" THEN R.spawns ELSE {0},
     attack : IF s.boss # <<>> /\ s.currentLevel = MAX_LEVEL THEN R.attacks ELSE {0},
     bbGone : IF R.bbGones THEN 0..Len(s.bossBullets) ELSE {0}]

\* inputs of updateParticles
ParticleInputs(s, R) == [inBand : Choice(R.bands, 1..Len(s.particles))]

\* inputs of the melee callback
MeleeInputs(s, R) ==
    {d @@ e : d \in DamageInputs(s, R),
              e \in [melee : Choice(R.melees, EnemyIds(s)),
                     meleeBoss : IF s.boss # <<>> /\ R.melees # "none"
                                 THEN BOOLEAN ELSE {FALSE}]}

\* what the model keeps at a time
Within(s) ==
    /\ Len(s.bullets) <= MaxBullets
    /\ Len(s.droneBullets) <= MaxDroneBullets
    /\ Len(s.bossBullets) <= MaxBossBullets
    /\ Len(s.pickups) <= MaxPickups
    /\ Len(s.particles) <= MaxParticles
    /\ Len(s.timers) <= MaxTimers

----------------------------------------------------------------------------
(* Actions *)

\* the state after construction and init(): the start screen is shown, the
\* frame loop runs, no run has been started
Constructed ==
    [gameState |-> "start_screen", previousGameState |-> "null",
     isNewGamePlus |-> FALSE, currentLevel |-> 0, weaponLevel |-> 1,
     player |-> NoPlayer, posY |-> 16000, wave |-> NoWave, boss |-> <<>>,
     enemies |-> <<>>, bullets |-> <<>>, bossBullets |-> <<>>, droneBullets |-> <<>>,
     pickups |-> <<>>, particles |-> <<>>, drone |-> FALSE,
     droneTarget |-> <<>>, lastDroneShotTime |-> 0,
     keys |-> {}, clock |-> [running |-> FALSE, autoStart |-> TRUE, elapsedTime |-> 0],
     pointerLock |-> FALSE, timers |-> <<>>, awaits |-> <<>>, message |-> <<>>,
     wallTime |-> 0, epoch |-> 0, hist |-> NoHist]

\* the variables hold the state s
Start(s) ==
    /\ gameState = s.gameState
    /\ previousGameState = s.previousGameState
    /\ isNewGamePlus = s.isNewGamePlus
    /\ currentLevel = s.currentLevel
    /\ weaponLevel = s.weaponLevel
    /\ player = s.player
    /\ posY = s.posY
    /\ wave = s.wave
    /\ boss = s.boss
    /\ enemies = s.enemies
    /\ bullets = s.bullets
    /\ bossBullets = s.bossBullets
    /\ droneBullets = s.droneBullets
    /\ pickups = s.pickups
    /\ particles = s.particles
    /\ drone = s.drone
    /\ droneTarget = s.droneTarget
    /\ lastDroneShotTime = s.lastDroneShotTime
    /\ keys = s.keys
    /\ clock = s.clock
    /\ pointerLock = s.pointerLock
    /\ timers = s.timers
    /\ awaits = s.awaits
    /\ message = s.message
    /\ wallTime = s.wallTime
    /\ epoch = s.epoch
    /\ hist = s.hist

Init == Start(Constructed)

\* the time until the next pending callback is due
MinRem(q) == CHOOSE m \in {q[k].rem : k \in 1..Len(q)} :
                 \A k \in 1..Len(q) : m <= q[k].rem

\* dt of wall time passes
Pass(s, dt) ==
    [s EXCEPT !.wallTime = @ + dt,
              !.timers = [k \in 1..Len(@) |-> [@[k] EXCEPT !.rem = @ - dt]]]

\* animate from line 508 on
FrameTail(s, dt, R) ==
    \E d \in DirectorInputs(s, R) :
       \E s5 \in {frameDirector(s, dt, d)} :
          \E e \in ParticleInputs(s5, R) :
             \E s6 \in {frameParticles(s5, dt, e)} :
                Within(s6) /\ Becomes(s6)

\* animate from line 496 on
Frame(c, dt, R) ==
    IF c.gameState \in {"playing", "boss_fight"}
    THEN LET s1 == framePlayer(c, dt)
         IN \E a \in BulletInputs(s1, R) :
               LET s2 == frameBullets(s1, a)
               IN \E b \in HitInputs(s2, a, R) :
                     LET s3 == frameBulletHits(s2, a @@ b)
                     IN \E cc \in ContactInputs(s3, R) :
                           FrameTail(frameContacts(s3, dt, b @@ cc), dt, R)
    ELSE FrameTail(c, dt, R)

\* private animate: one frame, d of wall time after the previous one (a
\* pending callback that is due runs before the next frame)
Animate(R) ==
    /\ \A k \in 1..Len(timers) : timers[k].rem > 0
    /\ \E d \in R.dts :
          \E dt0 \in {IF timers = <<>> THEN d ELSE Min2(d, MinRem(timers))} :
             \E w \in {Pass(Begin(Cur, "animate", epoch), dt0)} :
                /\ w.wallTime <= R.until
                /\ IF w.gameState = "paused" THEN Becomes(w)
                   ELSE \E c \in {getDelta(w, dt0)} : Frame(c, Delta(w, dt0), R)

\* the pending callbacks of a kind that run next: due, and none due before
Due(kind) ==
    {i \in 1..Len(timers) : /\ timers[i].rem = 0
                            /\ timers[i].kind = kind
                            /\ \A j \in 1..(i - 1) : timers[j].rem # 0}

\* the state in which pending callback i of s starts
FireIn(s, i) == Begin([s EXCEPT !.timers = Splice(@, i)], s.timers[i].kind, s.timers[i].run)

\* the state in which callback i starts
Fired(i) == FireIn(Cur, i)

\* setTimeout(() => this.startNextWave(), ...) of startGame / onBossDefeated
StartNextWaveFires ==
    \E i \in Due("startNextWave") :
       \E r \in {startNextWave(Fired(i))} : Within(r) /\ Becomes(r)

\* setTimeout(() => showMessages(index + 1), 4000) of startNextWave
ShowMessagesFires ==
    \E i \in Due("showMessages") :
       \E r \in {showMessages(Fired(i), timers[i].index, timers[i].messages)} :
          Within(r) /\ Becomes(r)

\* the callback of playerMeleeAttack
MeleeHitFires(R) ==
    \E i \in Due("meleeHit") :
       \E inp \in MeleeInputs(Fired(i), R) :
          LET r == meleeHit(Fired(i), inp) IN Within(r) /\ Becomes(r)

\* the callback of triggerBossSequence
BossSpawnFires ==
    \E i \in Due("bossSpawn") : Becomes(bossSpawn(Fired(i), timers[i].bossData))

\* a callback of the tier-5 ring burst
BossRingFires ==
    \E i \in Due("bossRing") :
       LET r == bossRing(Fired(i), timers[i].index) IN Within(r) /\ Becomes(r)

\* the promise of _generateBossIntro settles
IntroResolves(R) ==
    \E i \in 1..Len(awaits), o \in R.outcomes :
       LET s0 == Begin([Cur EXCEPT !.awaits = Splice(@, i)], "introResolved", awaits[i].run)
           r == introResolved(s0, _generateBossIntro(o))
       IN Within(r) /\ Becomes(r)

\* App.handleStartGame(isNGP): a click on the start screen, or Restart /
\* New Game+ on the end screen (New Game+ is shown after handleVictory only)
StartGame(R) ==
    \E isNGP \in BOOLEAN, lock \in R.locks :
       /\ epoch < MaxResets
       /\ \/ gameState = "start_screen" /\ ~isNGP
          \/ gameState = "game_over" /\ ~isNGP
          \/ gameState = "victory"
       /\ LET s0 == [Begin(Cur, "handleStartGame", epoch) EXCEPT
                        !.pointerLock = lock, !.message = <<>>, !.hist.quit = FALSE]
              r == resetGame(s0, isNGP)
          IN Within(r) /\ Becomes(r)

\* the pause button of GameUI (handleTogglePause), rendered in playing,
\* boss_fight and wave_transition
PauseClick ==
    /\ gameState \in {"playing", "boss_fight", "wave_transition"}
    /\ Becomes(togglePause(Begin(Cur, "togglePause", epoch)))

\* App.handleResumeGame: Resume on the pause screen
ResumeClick(R) ==
    /\ gameState = "paused"
    /\ \E lock \in R.locks :
          Becomes(togglePause([Begin(Cur, "togglePause", epoch) EXCEPT !.pointerLock = lock]))

\* App.handleQuitToMainMenu: Main Menu on the pause screen
QuitClick ==
    /\ gameState = "paused"
    /\ epoch < MaxResets
    /\ LET r == quitToMainMenu(Begin(Cur, "quitToMainMenu", epoch))
       IN Within(r) /\ Becomes(r)

\* private onKeyDown
onKeyDown(s, code) ==
    IF code = "Escape" /\ s.gameState \in {"playing", "boss_fight", "paused"}
    THEN togglePause(s)
    ELSE [s EXCEPT !.keys = @ \cup {code}]

\* private onKeyUp
onKeyUp(s, code) == [s EXCEPT !.keys = @ \ {code}]

\* private onMouseDown
onMouseDown(s, button) ==
    IF s.pointerLock /\ PlayerDefined(s)
    THEN IF button = 0 THEN [s EXCEPT !.keys = @ \cup {"mouse0"}]
         ELSE IF button = 2 /\ ~s.player.melee.attacking /\ ~s.player.reloading
         THEN [s EXCEPT !.player.isAiming = TRUE]
         ELSE s
    ELSE s

\* private onMouseUp
onMouseUp(s, button) ==
    LET s1 == IF button = 0 THEN [s EXCEPT !.keys = @ \ {"mouse0"}] ELSE s
    IN IF button = 2 /\ PlayerDefined(s1)
       THEN [s1 EXCEPT !.player.isAiming = FALSE]
       ELSE s1

\* a key goes down (Escape: while a run is on)
KeyDown(R) ==
    \E code \in R.keys \ {"mouse0", "mouse2"} :
       /\ code \notin keys
       /\ code = "Escape" => gameState \in {"playing", "boss_fight", "paused"}
       /\ Becomes(onKeyDown(Begin(Cur, "onKeyDown", epoch), code))

\* a key that is down goes up
KeyUp ==
    \E code \in keys \ {"mouse0"} :
       Becomes(onKeyUp(Begin(Cur, "onKeyUp", epoch), code))

\* a mouse button goes down
MouseDown(R) ==
    \E button \in {0, 2} :
       /\ button = 0 => "mouse0" \in R.keys /\ "mouse0" \notin keys
       /\ button = 2 => "mouse2" \in R.keys /\ PlayerDefined(Cur) /\ ~player.isAiming
       /\ pointerLock
       /\ Becomes(onMouseDown(Begin(Cur, "onMouseDown", epoch), button))

\* a mouse button goes up
MouseUp ==
    \E button \in {0, 2} :
       /\ button = 0 => "mouse0" \in keys
       /\ button = 2 => PlayerDefined(Cur) /\ player.isAiming
       /\ Becomes(onMouseUp(Begin(Cur, "onMouseUp", epoch), button))

----------------------------------------------------------------------------
(* States of a session in progress, built with the handlers above.  The     *)
(* specifications that explore combat start from them.                      *)

\* dt later, with the clock running and no frame taken
Later(s, dt) == [Pass(s, dt) EXCEPT !.clock.running = TRUE, !.clock.elapsedTime = @ + dt]

\* the start screen has been clicked once (handleStartGame(false))
Clicked ==
    resetGame([Begin(Constructed, "handleStartGame", 0) EXCEPT !.pointerLock = TRUE], FALSE)

\* 5 s after the click: the callback of startGame has begun wave 1
Opened == startNextWave(FireIn(Later(Clicked, 500), 1))

RECURSIVE Narrated(_)
\* the narration chain of startNextWave has run to its end (4 s a message)
Narrated(s) ==
    IF s.timers = <<>> THEN s
    ELSE Narrated(showMessages(FireIn(Later(s, s.timers[1].rem), 1),
                               s.timers[1].index, s.timers[1].messages))

\* the wave of s and its boss are beaten (with the blade, unharmed), and
\* startNextWave has begun the next wave at time t
NextLevel(s, t) ==
    LET a == [s EXCEPT !.wallTime = t, !.clock.elapsedTime = t,
                       !.player.onGround = TRUE, !.message = <<>>]
    IN Narrated(startNextWave(Begin(a, "startNextWave", a.epoch)))

RECURSIVE Level(_)
\* wave L has just begun, a minute after the one before
Level(L) == IF L = 1 THEN Opened ELSE NextLevel(Level(L - 1), L * 6000)

\* dt into the wave of s: spawned enemies have been spawned, killed of them
\* killed, alive are left, the player is on the ground
InWave(s, dt, spawned, killed, alive) ==
    [Later(s, dt) EXCEPT !.wave.spawnedInWave = spawned, !.wave.killedInWave = killed,
                         !.wave.spawnTimer = s.wave.spawnInterval,
                         !.enemies = alive, !.player.onGround = TRUE]

\* an enemy as spawnEnemy makes it, with hp left
Foe(s, id, type, hpLeft) ==
    LET scale == IF s.isNewGamePlus THEN 12 ELSE 10
        f == 10 + (s.currentLevel - 1)
    IN [id |-> id, type |-> type, hp |-> hpLeft,
        damage |-> EnemyConfig(type).DAMAGE * scale * f]

\* the wave of s is cleared after dt, the intro has arrived and the boss has
\* entered (3 s after the intro)
BossEntered(s, dt) ==
    LET total == s.wave.totalToKill
        a == InWave(s, dt, total, total, <<>>)
        b == triggerBossSequence(Begin(a, "meleeHit", a.epoch))
        c == introResolved(Begin([b EXCEPT !.awaits = <<>>], "introResolved", b.epoch),
                           _generateBossIntro("ok"))
        d == Later(c, 300)
    IN bossSpawn(FireIn(d, 1), d.timers[1].bossData)

----------------------------------------------------------------------------
(* Specification Spec: the session from the start screen on.  Start clicks, *)
(* the opening countdown, the first wave, pause, resume, quit to the menu.  *)
(* Frames come every 5 s at most (a frame is also taken when a pending      *)
(* callback is due); nothing touches the player.                            *)

SessionInputs ==
    [dts |-> {500}, until |-> SessionEnd, fates |-> {"fly"},
     loots |-> {[drop |-> 99, kind |-> 0]},
     spawns |-> {0}, attacks |-> {0}, bursts |-> "none", melees |-> "none",
     picks |-> "none", bands |-> "none", touches |-> {},
     bbHits |-> FALSE, bbGones |-> FALSE, nearests |-> {"none"}, inRanges |-> {TRUE},
     keys |-> {}, outcomes |-> {"ok"}, locks |-> {TRUE}]

Next ==
    \/ Animate(SessionInputs)
    \/ StartNextWaveFires
    \/ StartGame(SessionInputs)
    \/ PauseClick
    \/ ResumeClick(SessionInputs)
    \/ QuitClick

Spec == Init /\ [][Next]_vars

\* the handlers that run deferred: timer callbacks and the continuation of
\* triggerBossSequence
Callbacks ==
    {"startNextWave", "showMessages", "meleeHit", "bossSpawn", "bossRing", "introResolved"}

\* the simulation state: everything but the pending callbacks, the shell's
\* message, the clocks and the history
SimState ==
    <<gameState, previousGameState, isNewGamePlus, currentLevel, weaponLevel, player,
      posY, wave, boss, enemies, bullets, bossBullets, droneBullets, pickups,
      particles, drone, droneTarget, lastDroneShotTime, keys>>

\* C2: after a reset, a deferred callback that was scheduled before that
\* reset does not change the simulation state: a step in which a callback
\* runs that an earlier run scheduled leaves the simulation state as it was
C2_StaleCallbackInert ==
    [][(hist'.op \in Callbacks /\ hist'.run < epoch') => SimState' = SimState]_vars

\* C3: after quitToMainMenu the mode is start_screen, and it remains
\* start_screen until a start-game request invokes resetGame
C3_QuitStaysOnStartScreen == hist.quit => gameState = "start_screen"

\* C17: currentLevel stays within 0..MAX_LEVEL; it changes only to 0 (a
\* reset) or by exactly 1, from 0 for the first wave of a run and otherwise
\* only after the boss of the current level has been defeated, whatever start
\* and quit requests are made; a boss that is present has a tier in 1..5
C17_LevelsInOrder ==
    [][/\ currentLevel' \in 0..MAX_LEVEL
       /\ boss' # <<>> => currentLevel' \in 1..MAX_LEVEL
       /\ currentLevel' # currentLevel =>
             \/ currentLevel' = 0
             \/ /\ currentLevel' = currentLevel + 1
                /\ currentLevel = 0 \/ hist.bossDown]_vars

----------------------------------------------------------------------------
(* Specification SpecLastStand: the end of wave 1.  27 s into the wave 17   *)
(* of its 18 enemies are killed; the last one, a drone, has taken one blow  *)
(* of the blade (40 - 35 hp left) and chases the player, who has been       *)
(* touched nine or eight times (10 or 20 hp left).  The player swings the   *)
(* blade (KeyF), the drone may touch the player again; after a death the    *)
(* end screen's Restart may be clicked.                                     *)

LastStand ==
    {[InWave(Opened, 2700, 18, 17, <<Foe(Opened, 1, "drone", 500)>>) EXCEPT
         !.player.hp = hp, !.player.lastHitTime = 3100] : hp \in {1000, 2000}}

LastStandInputs ==
    [dts |-> {100}, until |-> LastStandEnd, fates |-> {"fly"},
     loots |-> {[drop |-> 99, kind |-> 0], [drop |-> 0, kind |-> 99]},
     spawns |-> {0}, attacks |-> {0}, bursts |-> "none", melees |-> "all or none",
     picks |-> "none", bands |-> "none", touches |-> {"enemy"},
     bbHits |-> FALSE, bbGones |-> FALSE, nearests |-> {"none"}, inRanges |-> {TRUE},
     keys |-> {"KeyF"}, outcomes |-> {"ok", "failed"}, locks |-> {TRUE}]

InitLastStand == \E s \in LastStand : Start(s)

NextLastStand ==
    \/ Animate(LastStandInputs)
    \/ KeyDown(LastStandInputs)
    \/ KeyUp
    \/ MeleeHitFires(LastStandInputs)
    \/ IntroResolves(LastStandInputs)
    \/ BossSpawnFires
    \/ StartGame(LastStandInputs)
    \/ StartNextWaveFires

SpecLastStand == InitLastStand /\ [][NextLastStand]_vars

\* C1: once the player has died and the mode is game_over, the mode stays
\* game_over until an explicit reset (resetGame, also through
\* quitToMainMenu): no tick and no deferred callback moves it elsewhere
C1_GameOverUntilReset == hist.dead => gameState = "game_over"

----------------------------------------------------------------------------
(* Specification SpecWave: waves played with the blade, from the start      *)
(* screen on.  The start screen may be clicked more than once during the    *)
(* opening countdown.  Scouts spawn; nothing touches the player; once KeyF  *)
(* is down it stays down, and every swing reaches every enemy alive.        *)

WaveInputs ==
    [dts |-> {130}, until |-> WaveEnd, fates |-> {"fly"},
     loots |-> {[drop |-> 99, kind |-> 0]},
     spawns |-> {99}, attacks |-> {0}, bursts |-> "none", melees |-> "all",
     picks |-> "none", bands |-> "none", touches |-> {},
     bbHits |-> FALSE, bbGones |-> FALSE, nearests |-> {"none"}, inRanges |-> {TRUE},
     keys |-> {"KeyF"}, outcomes |-> {"ok"}, locks |-> {TRUE}]

NextWave ==
    \/ Animate(WaveInputs)
    \/ StartGame(WaveInputs)
    \/ StartNextWaveFires
    \/ KeyDown(WaveInputs)
    \/ MeleeHitFires(WaveInputs)
    \/ IntroResolves(WaveInputs)
    \/ BossSpawnFires

SpecWave == Init /\ [][NextWave]_vars

\* C7: the boss sequence of a wave is triggered only in a state where
\* killedInWave equals totalToKill and no enemy is alive, and exactly once
\* per wave: a handler that triggers it ends with the quota met exactly, no
\* enemy alive and one trigger for the wave; and the wave is not being
\* played on with the quota met and no enemy alive
C7_BossSequenceOncePerWave ==
    /\ hist.bossSeq > 0 =>
          /\ wave.killedInWave = wave.totalToKill
          /\ enemies = <<>>
          /\ hist.seqInWave = 1
    /\ (gameState = "playing" /\ wave.killedInWave >= wave.totalToKill /\ enemies = <<>>)
          => hist.seqInWave >= 1

\* the frame period the clock reports in a step
FrameDelta == clock'.elapsedTime - clock.elapsedTime

\* C8: during a wave spawnedInWave never exceeds totalToKill and the number
\* of enemies alive never exceeds maxConcurrent; a tick spawns at most one
\* enemy, and only when spawnedInWave < totalToKill, fewer than maxConcurrent
\* are alive and spawnTimer has reached <= 0, after which spawnTimer is
\* spawnInterval; no other handler spawns
C8_SpawnGate ==
    /\ [](wave.spawnedInWave <= wave.totalToKill /\ Len(enemies) <= wave.maxConcurrent)
    /\ [][/\ hist'.spawned <= 1
          /\ hist'.spawned = 1 =>
                /\ hist'.op = "animate"
                /\ wave.spawnedInWave < wave.totalToKill
                /\ wave'.spawnedInWave = wave.spawnedInWave + 1
                /\ Len(enemies') - 1 < wave.maxConcurrent
                /\ wave.spawnTimer - FrameDelta <= 0
                /\ wave'.spawnTimer = wave'.spawnInterval]_vars

\* C8 witness: as many enemies are alive as the wave allows, after a frame
\* in which the gate kept spawnEnemy from running
C8_AtCapacity ==
    /\ gameState = "playing"
    /\ hist.op = "animate" /\ hist.spawned = 0
    /\ Len(enemies) = wave.maxConcurrent
    /\ wave.spawnedInWave < wave.totalToKill

----------------------------------------------------------------------------
(* Specification SpecDuel: the player under fire.  Four scenes that all     *)
(* begin 400 s into the session: a level-3 wave with a tank in reach, a     *)
(* health pack on the ground and the player hurt and winded, and the boss   *)
(* fights of levels 3, 4 and 5 right after the boss has entered.  The       *)
(* player holds W and presses and releases Shift, Q and G at will; the tank *)
(* and the boss touch, the projectiles hit, the shockwave, the ring and the *)
(* rotating beam reach the player or miss.  Frames are 1 s apart.           *)

Skirmish ==
    LET s == Level(3)
    IN {[InWave(s, 40000 - s.wallTime, 5, 4, <<Foe(s, 2, "tank", 10800)>>) EXCEPT
           !.player.hp = hp, !.player.stamina = 1500, !.player.lastHitTime = 39900,
           !.pickups = <<[type |-> "health"]>>, !.keys = {"KeyW"}] : hp \in {10000, 2800}}

BossDuels == {BossEntered(Level(L), 39700 - Level(L).wallTime) : L \in 3..5}

DuelInputs ==
    [dts |-> {100}, until |-> DuelEnd, fates |-> {"fly"},
     loots |-> {[drop |-> 99, kind |-> 0]},
     spawns |-> {99}, attacks |-> {99}, bursts |-> "none", melees |-> "none",
     picks |-> "any", bands |-> "any", touches |-> {"enemy", "boss"},
     bbHits |-> TRUE, bbGones |-> FALSE, nearests |-> {"none"}, inRanges |-> {TRUE},
     keys |-> {"KeyG", "KeyQ", "ShiftLeft"}, outcomes |-> {"ok"}, locks |-> {TRUE}]

InitDuel == \E s \in Skirmish \cup BossDuels : Start(s)

NextDuel ==
    \/ Animate(DuelInputs)
    \/ KeyDown(DuelInputs)
    \/ KeyUp

SpecDuel == InitDuel /\ [][NextDuel]_vars

\* C4: after every frame and callback the player's hp is within 0..maxHp and
\* the stamina within 0..maxStamina, whatever the sequence of damage, heal
\* skill, health pickups, sprinting and regeneration
C4_VitalsInRange ==
    PlayerDefined(Cur) =>
        /\ 0 <= player.hp /\ player.hp <= player.maxHp
        /\ 0 <= player.stamina /\ player.stamina <= player.maxStamina

\* a hit larger than the hp left has killed the player (hp 2800 or 10000,
\* hits of 1800, 2000 and more): hp reads 0
C4_KilledByOvershoot ==
    /\ hist.op = "animate" /\ hist.dead
    /\ gameState = "game_over" /\ player.hp = 0

\* C9: while the shield is active every damage call (enemy contact, boss
\* contact, boss projectile, shockwave, ring, rotating beam) leaves hp as it
\* was and does not end the game
C9_ShieldAbsorbs == hist.absorbed

\* a frame in which the active shield took a boss projectile and a hazard
C9_ShieldHit ==
    /\ hist.op = "animate" /\ player.shield.active
    /\ "projectile" \in hist.blocked
    /\ hist.blocked \cap {"shockwave", "ring", "laser"} # {}

\* C16: from the step in which the player dies until the next reset,
\* player.hp is 0 at the end of every step: no health pickup, heal skill or
\* further damage processed later in the death tick or afterwards changes it
C16_DeadStaysAtZero == hist.dead => player.hp = 0

----------------------------------------------------------------------------
(* Specification SpecCombat: the player's weapons at work.  Three scenes    *)
(* that begin 400 s into the session: the last two enemies of the level-4   *)
(* wave (a kamikaze and a tank two rifle hits from death), and the boss     *)
(* fights of levels 4 and 5 with the boss (the weak point) nearly down.     *)
(* The companion drone is out.  The player presses and releases the fire    *)
(* button, F and Z at will; a bullet flies on, leaves, or hits an enemy,    *)
(* the boss or the weak point; the kamikaze may touch the player; its burst *)
(* and the melee sweep reach everything or nothing.  Frames are 1 s apart   *)
(* (a frame is also taken when the melee callback is due).                  *)

Brawl ==
    LET s == Level(4)
        total == s.wave.totalToKill
    IN {InWave(s, 40000 - s.wallTime, total, total - 2,
               <<Foe(s, 1, "kamikaze", 1300), Foe(s, 2, "tank", 2500)>>)}

BossBrawl ==
    {[BossEntered(Level(L), 39700 - Level(L).wallTime) EXCEPT !.boss[1].hp = 2000] : L \in 4..5}

CombatInputs ==
    [dts |-> {100}, until |-> CombatEnd, fates |-> {"enemy", "boss", "weak", "fly"},
     loots |-> {[drop |-> 0, kind |-> 0]},
     spawns |-> {99}, attacks |-> {99}, bursts |-> "all or none", melees |-> "all or none",
     picks |-> "none", bands |-> "none", touches |-> {"enemy"},
     bbHits |-> FALSE, bbGones |-> TRUE, nearests |-> {"enemy", "boss"}, inRanges |-> {TRUE},
     keys |-> {"KeyF", "mouse0", "KeyZ"}, outcomes |-> {"ok"}, locks |-> {TRUE}]

InitCombat == \E s \in Brawl \cup BossBrawl : Start(s)

NextCombat ==
    \/ Animate(CombatInputs)
    \/ KeyDown(CombatInputs)
    \/ KeyUp
    \/ MouseDown(CombatInputs)
    \/ MouseUp
    \/ MeleeHitFires(CombatInputs)

SpecCombat == InitCombat /\ [][NextCombat]_vars

\* C5: every enemy in the registry has hp > 0 and a boss that is present has
\* hp > 0: what a bullet, the laser, a drone bullet, the melee sweep or a
\* burst brings to hp <= 0 is removed in the same step
C5_NoDeadInRegistry ==
    /\ \A k \in 1..Len(enemies) : enemies[k].hp > 0
    /\ boss # <<>> => boss[1].hp > 0

\* a frame that killed the tank and left the kamikaze standing
C5_TankDown ==
    /\ hist.op = "animate" /\ hist.kills = 1
    /\ Len(enemies) = 1 /\ enemies[1].type = "kamikaze"

Ids(q) == {q[k].id : k \in 1..Len(q)}

HpOf(q, i) == q[IndexOfId(q, i)].hp

\* C6: an enemy's death is processed exactly once.  In every step the enemies
\* that leave the registry are counted once each in killedInWave and get one
\* loot roll each (at most one pickup each), and an enemy that stays has
\* hp > 0, not above what it had
C6_DeathOnce ==
    [][LET gone == Ids(enemies) \ Ids(enemies')
       IN /\ wave'.killedInWave = wave.killedInWave + Cardinality(gone)
          /\ hist'.loot = Cardinality(gone)
          /\ Len(pickups') <= Len(pickups) + Cardinality(gone)
          /\ Ids(enemies') \subseteq Ids(enemies)
          /\ \A i \in Ids(enemies') :
                HpOf(enemies', i) > 0 /\ HpOf(enemies', i) <= HpOf(enemies, i)]_vars

\* the kamikaze was hit and took the tank with it: both are gone, two kills
\* and two loot rolls in one handler, the boss sequence has begun
C6_BurstKillsBoth ==
    /\ hist.kills = 2 /\ hist.loot = 2 /\ enemies = <<>>
    /\ wave.killedInWave = wave.totalToKill /\ hist.bossSeq = 1

\* C10: in no tick has a shot been fired (playerShoot ran) while
\* melee.attacking is true in that tick, a swing begun by the melee intent
\* later in the same tick included
C10_FireExcludesMelee == hist.op = "animate" /\ hist.shot => ~hist.swinging

\* C13: every damage application that hits the weak point of the tier-5 boss
\* (player bullet, overcharge laser, drone bullet, area burst) strictly
\* reduces weakPointHp and also reduces boss.hp
C13_WeakPointWears ==
    [][hist'.weakHits > 0 /\ boss # <<>> /\ boss' # <<>>
         => /\ boss'[1].weakPointHp < boss[1].weakPointHp
            /\ boss'[1].hp < boss[1].hp]_vars

\* C14: a damage call on the main body of the tier-5 boss (dealDamageTo on
\* the boss, by the melee sweep) leaves boss.hp as it was and does not start
\* the boss-death sequence
C14_BodyImmune == hist.bodyHeld

\* the melee sweep has reached the final boss, which stands
C14_BodyStruck ==
    /\ hist.op = "meleeHit" /\ hist.bodyHits > 0
    /\ boss # <<>> /\ boss[1].isFinalBoss

BossHazards == {"shockwave", "ring", "laser"}

\* C15: when the boss's hp reaches <= 0 exactly one boss-death sequence runs
\* however many hits land, and the same step removes all boss bullets and
\* hazards; so whenever no boss is present there is no boss bullet and no
\* boss hazard
C15_BossDiesOnce ==
    /\ [](boss = <<>> => /\ bossBullets = <<>>
                         /\ \A k \in 1..Len(particles) : particles[k].kind \notin BossHazards)
    /\ [](hist.bossDeaths <= 1)
    /\ [][boss # <<>> /\ boss' = <<>> => hist'.bossDeaths = 1]_vars

\* the tier-4 boss has fallen in a frame: the level is cleared
C15_BossFell ==
    /\ hist.op = "animate" /\ hist.bossDeaths = 1
    /\ boss = <<>> /\ gameState = "wave_transition" /\ currentLevel = 4

----------------------------------------------------------------------------
(* Specification SpecHandling: the weapon in the player's hands.  The scene *)
(* is the level-1 wave 20 s into the session, its last enemy out of reach,  *)
(* one round gone from the magazine.  The player presses and releases R, F  *)
(* and the aim button at will.  Frames are 200 ms apart (a frame is also    *)
(* taken when the melee callback is due).                                   *)

Range ==
    LET s == Opened
        total == s.wave.totalToKill
    IN {[InWave(s, 2000 - s.wallTime, total, total - 1, <<Foe(s, 1, "scout", 2500)>>) EXCEPT
           !.player.ammoInMagazine = @ - 1, !.player.lastShotTime = 1900]}

HandlingInputs ==
    [dts |-> {20}, until |-> HandlingEnd, fates |-> {"fly"},
     loots |-> {[drop |-> 99, kind |-> 0]},
     spawns |-> {99}, attacks |-> {99}, bursts |-> "none", melees |-> "none",
     picks |-> "none", bands |-> "none", touches |-> {},
     bbHits |-> FALSE, bbGones |-> FALSE, nearests |-> {"none"}, inRanges |-> {TRUE},
     keys |-> {"KeyR", "KeyF", "mouse2"}, outcomes |-> {"ok"}, locks |-> {TRUE}]

InitHandling == \E s \in Range : Start(s)

NextHandling ==
    \/ Animate(HandlingInputs)
    \/ KeyDown(HandlingInputs)
    \/ KeyUp
    \/ MouseDown(HandlingInputs)
    \/ MouseUp
    \/ MeleeHitFires(HandlingInputs)

SpecHandling == InitHandling /\ [][NextHandling]_vars

\* C11: whenever player.reloading is true at the end of a tick or between
\* ticks (the tick that starts the reload and aim-button events during the
\* reload included), player.isAiming is false
C11_ReloadLowersAim == PlayerDefined(Cur) /\ player.reloading => ~player.isAiming

\* C12: player.reloading and player.melee.attacking are never both true: no
\* swing starts during a reload and no reload starts during a swing
C12_ReloadExcludesMelee ==
    PlayerDefined(Cur) => ~(player.reloading /\ player.melee.attacking)

----------------------------------------------------------------------------
(* Specification SpecReset: resets out of a fight.  The scenes are those of *)
(* SpecCombat and the level-3 skirmish of SpecDuel with the player one      *)
(* touch from death.  The player fires, swings, pauses with Escape; from    *)
(* the pause screen the run is quit, from the end screens it is restarted   *)
(* (after a victory also in the harder replay mode).                        *)

ResetInputs ==
    [dts |-> {100}, until |-> ResetEnd, fates |-> {"boss", "weak", "fly"},
     loots |-> {[drop |-> 0, kind |-> 0]},
     spawns |-> {99}, attacks |-> {99}, bursts |-> "all", melees |-> "all",
     picks |-> "none", bands |-> "none", touches |-> {"enemy"},
     bbHits |-> FALSE, bbGones |-> FALSE, nearests |-> {"enemy", "boss"}, inRanges |-> {TRUE},
     keys |-> {"KeyF", "mouse0", "Escape"}, outcomes |-> {"ok"}, locks |-> {TRUE}]

InitReset ==
    \E s \in Brawl \cup BossBrawl \cup {x \in Skirmish : x.player.hp < x.player.maxHp} :
       Start([s EXCEPT !.player.hp = Min2(@, 1000)])

NextReset ==
    \/ Animate(ResetInputs)
    \/ KeyDown(ResetInputs)
    \/ MouseDown(ResetInputs)
    \/ MeleeHitFires(ResetInputs)
    \/ QuitClick
    \/ StartGame(ResetInputs)

SpecReset == InitReset /\ [][NextReset]_vars

\* C18: right after resetGame has returned every transient collection is
\* empty, no boss and no drone is present, currentLevel is 0, the weapon tier
\* is 1 and the player is as new: hp = maxHp = 100, full stamina, magazine 30,
\* reserve 90, not reloading, not aiming, no swing, all cooldowns 0, shield
\* and drone locked, skills unlocked exactly in the harder replay mode
C18_ResetIsClean ==
    hist.op \in {"handleStartGame", "quitToMainMenu"} =>
       /\ enemies = <<>> /\ bullets = <<>> /\ bossBullets = <<>>
       /\ droneBullets = <<>> /\ pickups = <<>> /\ particles = <<>>
       /\ boss = <<>> /\ ~drone
       /\ currentLevel = 0 /\ weaponLevel = 1
       /\ player.hp = 10000 /\ player.maxHp = 10000
       /\ player.stamina = 10000 /\ player.maxStamina = 10000
       /\ player.ammoInMagazine = 30 /\ player.reserveAmmo = 90
       /\ ~player.reloading /\ ~player.isAiming /\ ~player.melee.attacking
       /\ player.melee.cooldown = 0 /\ player.skills.q.cooldown = 0
       /\ player.skills.z.cooldown = 0 /\ player.shield.cooldown = 0
       /\ ~player.shield.unlocked /\ ~player.drone.unlocked
       /\ player.skills.q.unlocked = isNewGamePlus
       /\ player.skills.z.unlocked = isNewGamePlus

\* the run has been restarted in the harder replay mode after a victory
C18_ReplayRequested ==
    /\ hist.op = "handleStartGame" /\ isNewGamePlus
    /\ gameState = "victory" /\ player.skills.q.unlocked

----------------------------------------------------------------------------
(* Specification SpecPause: pausing in the middle of a fight.  The scenes   *)
(* and the player's means are those of SpecReset; togglePause is called in  *)
(* whatever mode the game is in, by the Escape key, by the pause control    *)
(* of GameUI (rendered in playing, boss_fight and wave_transition), by      *)
(* Resume on the pause screen, or directly on the game object.              *)

PauseInputs ==
    [ResetInputs EXCEPT !.until = PauseEnd]

\* a call of the public togglePause() on the constructed game, in any mode
TogglePause ==
    /\ PlayerDefined(Cur)
    /\ Becomes(togglePause(Begin(Cur, "togglePause", epoch)))

InitPause ==
    \E s \in Brawl \cup BossBrawl \cup {x \in Skirmish : x.player.hp < x.player.maxHp} :
       Start([s EXCEPT !.player.hp = Min2(@, 1000)])

NextPause ==
    \/ Animate(PauseInputs)
    \/ KeyDown(PauseInputs)
    \/ KeyUp
    \/ MouseDown(PauseInputs)
    \/ MeleeHitFires(PauseInputs)
    \/ TogglePause
    \/ QuitClick

SpecPause == InitPause /\ [][NextPause]_vars

\* the step is a call of togglePause: a direct one, or an Escape key that
\* onKeyDown hands to togglePause instead of registering it
Toggled ==
    \/ hist'.op = "togglePause"
    \/ hist'.op = "onKeyDown" /\ keys' = keys

Sim ==
    <<gameState, currentLevel, weaponLevel, player, wave, boss, enemies, bullets,
      bossBullets, droneBullets, pickups, particles, drone>>

\* C20: while the mode is paused nothing in the simulation changes (timers
\* of the player, the boss and the wave, every entity's hp, the collections,
\* the wave counters, the mode) until togglePause or quitToMainMenu is called
C20_PausedIsFrozen ==
    [][gameState = "paused" /\ ~Toggled /\ hist'.op # "quitToMainMenu"
          => Sim' = Sim]_vars

----------------------------------------------------------------------------
(* Specification SpecIntro: the boss makes its entrance.  Three scenes that *)
(* begin 400 s into the session, each with the last enemy of a wave (a      *)
(* drone one blow from death) in reach of the blade: wave 1 and wave 5 of a *)
(* normal run, and wave 1 of the harder replay that follows a victory.  The *)
(* player swings (KeyF); the intro request settles at any time, in any of   *)
(* its outcomes; 3 s later the boss enters and fights.                      *)

\* the normal run is won: the level-5 boss has entered and is beaten
Won == onBossDefeated(Begin(BossEntered(Level(5), 300), "meleeHit", 1))

\* New Game+ is clicked on the end screen; 4 s later wave 1 of the replay
\* begins
Replay ==
    LET s0 == [Begin(Won, "handleStartGame", 1) EXCEPT !.pointerLock = TRUE, !.message = <<>>]
    IN startNextWave(FireIn(Later(resetGame(s0, TRUE), 400), 1))

Finale ==
    {InWave(s, 40000 - s.wallTime, s.wave.totalToKill, s.wave.totalToKill - 1,
            <<Foe(s, 1, "drone", 500)>>) : s \in {Opened, Level(5), Replay}}

IntroInputs ==
    [dts |-> {100}, until |-> IntroEnd, fates |-> {"fly"},
     loots |-> {[drop |-> 99, kind |-> 0]},
     spawns |-> {99}, attacks |-> {99}, bursts |-> "none", melees |-> "all",
     picks |-> "none", bands |-> "none", touches |-> {},
     bbHits |-> FALSE, bbGones |-> TRUE, nearests |-> {"none"}, inRanges |-> {TRUE},
     keys |-> {"KeyF"}, outcomes |-> {"ok", "no_name", "no_intro", "failed"},
     locks |-> {TRUE}]

InitIntro == \E s \in Finale : Start(s)

NextIntro ==
    \/ Animate(IntroInputs)
    \/ KeyDown(IntroInputs)
    \/ KeyUp
    \/ MeleeHitFires(IntroInputs)
    \/ IntroResolves(IntroInputs)
    \/ BossSpawnFires

SpecIntro == InitIntro /\ [][NextIntro]_vars

\* the texts the boss may carry: the service's, or the fallback
Usable == {"service", "fallback"}

\* C21: whatever the outcome of the intro request (both fields, rejection,
\* unparsable payload, a payload lacking bossName or introMessage), the
\* request is issued once per boss sequence and never again when it settles,
\* and the boss enters with a name and an intro line that are the service's
\* or the fallback's
C21_IntroAlwaysUsable ==
    [][/\ Len(awaits') = Len(awaits) + hist'.bossSeq
                          - (IF hist'.op = "introResolved" THEN 1 ELSE 0)
       /\ hist'.bossSeq <= 1
       /\ hist'.op = "bossSpawn" =>
             /\ boss' # <<>>
             /\ boss'[1].name \in Usable
             /\ message' # <<>> /\ message'[1].text \in Usable]_vars

----------------------------------------------------------------------------
(* Specification SpecArsenal: ammunition, before and across the weapon      *)
(* upgrade.  Two kinds of scenes: wave 1 with the tier-1 rifle and one      *)
(* scout left out of reach, and the moment the level-2 boss has fallen,     *)
(* 4 s before startNextWave brings level 3 with the tier-2 rifle, its       *)
(* narration and the next wave.  The magazine holds 2 rounds or 1, the      *)
(* reserve 90, 20 or 0.  The player presses and releases the fire button    *)
(* and R at will; the bullets leave the arena.                              *)

Armed ==
    LET s == Opened
        total == s.wave.totalToKill
        b == BossEntered(Level(2), 39700 - Level(2).wallTime)
    IN {[x EXCEPT !.player.ammoInMagazine = m, !.player.reserveAmmo = r] :
          x \in {InWave(s, 41100 - s.wallTime, total, total - 1,
                        <<Foe(s, 1, "scout", 2500)>>),
                 onBossDefeated(Begin(b, "animate", b.epoch))},
          m \in {1, 2}, r \in {0, 20, 90}}

ArsenalInputs ==
    [dts |-> {100}, until |-> ArsenalEnd, fates |-> {"gone"},
     loots |-> {[drop |-> 99, kind |-> 0]},
     spawns |-> {99}, attacks |-> {99}, bursts |-> "none", melees |-> "none",
     picks |-> "none", bands |-> "none", touches |-> {},
     bbHits |-> FALSE, bbGones |-> FALSE, nearests |-> {"none"}, inRanges |-> {TRUE},
     keys |-> {"mouse0", "KeyR"}, outcomes |-> {"ok"}, locks |-> {TRUE}]

InitArsenal == \E s \in Armed : Start(s)

NextArsenal ==
    \/ Animate(ArsenalInputs)
    \/ KeyDown(ArsenalInputs)
    \/ KeyUp
    \/ MouseDown(ArsenalInputs)
    \/ MouseUp
    \/ StartNextWaveFires
    \/ ShowMessagesFires

SpecArsenal == InitArsenal /\ [][NextArsenal]_vars

\* the rounds the player carries
Rounds == player.ammoInMagazine + player.reserveAmmo

\* C22: a shot of the normal weapon takes exactly one round from the
\* magazine (a frame moves rounds from the reserve to the magazine and
\* spends at most one); with an empty magazine and overcharge inactive a
\* fire attempt creates no bullet and changes no ammunition; in every state
\* 0 <= ammoInMagazine <= maxAmmoInMagazine and reserveAmmo >= 0, also
\* across the tier-2 upgrade and reloads
C22_AmmoAccount ==
    /\ [](PlayerDefined(Cur) =>
            /\ 0 <= player.ammoInMagazine
            /\ player.ammoInMagazine <= player.maxAmmoInMagazine
            /\ player.reserveAmmo >= 0)
    /\ [][hist'.op = "animate" =>
            /\ Rounds' = Rounds - (IF hist'.shot /\ ~player.skills.z.active THEN 1 ELSE 0)
            /\ hist'.shot => Len(bullets') <= Len(bullets) + 1
            /\ (player.ammoInMagazine = 0 /\ ~player.reloading /\ ~player.skills.z.active)
                  => /\ ~hist'.shot
                     /\ player'.ammoInMagazine = 0
                     /\ player'.reserveAmmo = player.reserveAmmo
                     /\ Len(bullets') <= Len(bullets)]_vars

\* with the tier-2 weapon the magazine has been fired empty, and a frame
\* with the fire button down has left everything as it was
C22_DryFire ==
    /\ hist.op = "animate" /\ gameState = "playing" /\ weaponLevel = 2
    /\ "mouse0" \in keys /\ ~hist.shot
    /\ player.ammoInMagazine = 0 /\ ~player.reloading
    /\ player.reserveAmmo = 30

----------------------------------------------------------------------------
(* Specification SpecMend: the heal skill.  Wave 2 of a normal run (the     *)
(* skills are unlocked), one scout left out of reach, 400 s into the        *)
(* session.  The player, at 85 or 100 hp, has used the skill 19.8 s ago,    *)
(* one long frame back (the page was hidden meanwhile); frames now come     *)
(* 30 ms apart.  Q is pressed and released at will.                         *)

Mended ==
    LET s == Level(2)
        total == s.wave.totalToKill
        a == InWave(s, 40000 - 1980 - s.wallTime, total, total - 1,
                    <<Foe(s, 1, "scout", 2500)>>)
    IN {updateSkills(Later(useSkillQ([a EXCEPT !.player.hp = hp - Cents(SKILL_Q_HEAL)]), 1980), 1980) :
          hp \in {8500, 10000}}

MendInputs ==
    [dts |-> {3}, until |-> MendEnd, fates |-> {"fly"},
     loots |-> {[drop |-> 99, kind |-> 0]},
     spawns |-> {99}, attacks |-> {99}, bursts |-> "none", melees |-> "none",
     picks |-> "none", bands |-> "none", touches |-> {},
     bbHits |-> FALSE, bbGones |-> FALSE, nearests |-> {"none"}, inRanges |-> {TRUE},
     keys |-> {"KeyQ"}, outcomes |-> {"ok"}, locks |-> {TRUE}]

InitMend == \E s \in Mended : Start(s)

NextMend ==
    \/ Animate(MendInputs)
    \/ KeyDown(MendInputs)
    \/ KeyUp

SpecMend == InitMend /\ [][NextMend]_vars

\* C23: a frame in which the heal skill is activated finds it unlocked with
\* its cooldown at 0, sets hp to min(maxHp, hp + 35) and the cooldown to 20 s
\* (less the frame's own share); in every other frame the cooldown does not
\* increase and does not go below 0
C23_HealCooldown ==
    [][hist'.op = "animate" =>
         IF player'.skills.q.cooldown > player.skills.q.cooldown
         THEN /\ player.skills.q.unlocked
              /\ player.skills.q.cooldown <= 0
              /\ player'.skills.q.cooldown = SKILL_Q_COOLDOWN - FrameDelta
              /\ player'.hp = Min2(player.maxHp, player.hp + Cents(SKILL_Q_HEAL))
         ELSE /\ player'.hp = player.hp
              /\ player'.skills.q.cooldown >= 0]_vars

----------------------------------------------------------------------------
(* Specification SpecMuster: every wave of both modes is called up.  Ten    *)
(* scenes, all 600 s into the session with a startNextWave pending: the     *)
(* start screen has just been clicked, New Game+ has just been clicked      *)
(* after a victory, and the boss of level 1, 2, 3 or 4 has just fallen in   *)
(* a normal run or in the harder replay.  Time passes; the narration runs;  *)
(* the wave begins and its first enemies spawn.                             *)

RECURSIVE Encore(_)
\* wave L of the harder replay has just begun, a minute after the one before
Encore(L) == IF L = 1 THEN Replay ELSE NextLevel(Encore(L - 1), Replay.wallTime + (L - 1) * 6000)

\* the boss of the wave of s has fallen at 600 s
Fallen(s) ==
    LET b == BossEntered(s, 59700 - s.wallTime)
    IN onBossDefeated(Begin(b, "animate", b.epoch))

\* the start screen is clicked at 600 s
LateClick ==
    resetGame([Begin(Later(Constructed, 60000), "handleStartGame", 0) EXCEPT
                  !.pointerLock = TRUE], FALSE)

\* New Game+ is clicked at 600 s, right after the victory
LateReplay ==
    LET w == Fallen(Level(5))
    IN resetGame([Begin(w, "handleStartGame", w.epoch) EXCEPT
                     !.pointerLock = TRUE, !.message = <<>>], TRUE)

Mustering ==
    {LateClick, LateReplay} \cup {Fallen(Level(L)) : L \in 1..4}
                           \cup {Fallen(Encore(L)) : L \in 1..4}

MusterInputs ==
    [dts |-> {100}, until |-> MusterEnd, fates |-> {"fly"},
     loots |-> {[drop |-> 99, kind |-> 0]},
     spawns |-> {0, 99}, attacks |-> {99}, bursts |-> "none", melees |-> "none",
     picks |-> "none", bands |-> "none", touches |-> {},
     bbHits |-> FALSE, bbGones |-> FALSE, nearests |-> {"none"}, inRanges |-> {TRUE},
     keys |-> {}, outcomes |-> {"ok"}, locks |-> {TRUE}]

InitMuster == \E s \in Mustering : Start(s)

NextMuster ==
    \/ Animate(MusterInputs)
    \/ StartNextWaveFires
    \/ ShowMessagesFires

SpecMuster == InitMuster /\ [][NextMuster]_vars

\* C24: the wave that startNextWave creates for level L has
\* totalToKill = 10 + 8L, spawnInterval = max(0.5, base - 0.1L) with base 1.5
\* (1.0 in the harder replay), maxConcurrent = 12 (15 in the harder replay)
\* and killedInWave = spawnedInWave = 0
C24_WaveQuota ==
    [][hist'.waves > 0 =>
         /\ hist'.waves = 1
         /\ wave'.totalToKill = 10 + 8 * currentLevel'
         /\ wave'.spawnInterval =
               Max2(50, (IF isNewGamePlus' THEN 100 ELSE 150) - 10 * currentLevel')
         /\ wave'.maxConcurrent = (IF isNewGamePlus' THEN 15 ELSE 12)
         /\ wave'.killedInWave = 0
         /\ wave'.spawnedInWave = 0]_vars

\* wave 5 of the harder replay has just been created: 50 to kill, an enemy
\* every 0.5 s, 15 at a time
C24_LastWaveOfReplay ==
    /\ hist.waves = 1 /\ currentLevel = 5 /\ isNewGamePlus
    /\ gameState = "playing"
    /\ wave.totalToKill = 50 /\ wave.spawnInterval = 50 /\ wave.maxConcurrent = 15
    /\ wave.killedInWave = 0 /\ wave.spawnedInWave = 0

\* C25: what is unlocked follows from the highest level started in the run:
\* the heal and overcharge skills from the wave of level 2 on (in the harder
\* replay from the start), the shield and the tier-2 weapon from level 3 on,
\* the drone from level 4 on; and nothing unlocked is locked again except by
\* a reset
C25_UnlocksByLevel ==
    /\ [](PlayerDefined(Cur) =>
            /\ player.skills.q.unlocked = (isNewGamePlus \/ currentLevel >= 2)
            /\ player.skills.z.unlocked = (isNewGamePlus \/ currentLevel >= 2)
            /\ player.shield.unlocked = (currentLevel >= 3)
            /\ (weaponLevel = 2) = (currentLevel >= 3)
            /\ player.drone.unlocked = (currentLevel >= 4)
            /\ drone = (currentLevel >= 4))
    /\ [][PlayerDefined(Cur) /\ epoch' = epoch =>
            /\ player.skills.q.unlocked => player'.skills.q.unlocked
            /\ player.skills.z.unlocked => player'.skills.z.unlocked
            /\ player.shield.unlocked => player'.shield.unlocked
            /\ player.drone.unlocked => player'.drone.unlocked
            /\ weaponLevel = 2 => weaponLevel' = 2]_vars

\* level 4 of a normal run has just been reached: everything is unlocked
C25_FullyEquipped ==
    /\ hist.op = "startNextWave" /\ currentLevel = 4 /\ ~isNewGamePlus
    /\ player.skills.q.unlocked /\ player.skills.z.unlocked
    /\ player.shield.unlocked /\ weaponLevel = 2
    /\ player.drone.unlocked /\ drone

----------------------------------------------------------------------------
(* Specification SpecEager: the start button is activated three times in a  *)
(* row, 0.2 s apart, before the first wave begins (the start screen stays   *)
(* up during the countdown).  Each activation resets the game and schedules *)
(* a startNextWave.  Time passes, the callbacks run, enemies spawn.         *)

\* handleStartGame(false), dt after s
ClickAgain(s, dt) ==
    LET a == Later(s, dt)
    IN resetGame([Begin(a, "handleStartGame", a.epoch) EXCEPT
                     !.pointerLock = TRUE, !.message = <<>>], FALSE)

Eager == {ClickAgain(ClickAgain(Clicked, 20), 20)}

EagerInputs ==
    [dts |-> {100}, until |-> EagerEnd, fates |-> {"fly"},
     loots |-> {[drop |-> 99, kind |-> 0]},
     spawns |-> {0, 50, 99}, attacks |-> {99}, bursts |-> "none", melees |-> "none",
     picks |-> "none", bands |-> "none", touches |-> {},
     bbHits |-> FALSE, bbGones |-> FALSE, nearests |-> {"none"}, inRanges |-> {TRUE},
     keys |-> {}, outcomes |-> {"ok"}, locks |-> {TRUE}]

InitEager == \E s \in Eager : Start(s)

NextEager ==
    \/ Animate(EagerInputs)
    \/ StartNextWaveFires
    \/ ShowMessagesFires

SpecEager == InitEager /\ [][NextEager]_vars

\* a narration of startNextWave is under way: its next step is pending
Narrating == \E k \in 1..Len(timers) : timers[k].kind = "showMessages"

\* C26: the unlock narration of startNextWave is shown message by message,
\* each after the window of the one before; while it runs the mode is not
\* playing and no enemy is spawned; the wave is created and the mode becomes
\* playing only by the step that follows the last message's window
C26_NarrationFirst ==
    [][/\ Narrating' => gameState' # "playing" /\ hist'.spawned = 0
       /\ (Narrating /\ hist'.waves > 0) =>
             hist'.op = "showMessages" /\ ~Narrating' /\ gameState' = "playing"
       /\ (hist'.op = "showMessages" /\ Narrating') =>
             Len(timers') = Len(timers) /\ message' # message]_vars

----------------------------------------------------------------------------
(* Specification SpecTriumph: the boss falls.  Five scenes, 400 s into the  *)
(* session: the boss of level 1, 2, 3, 4 or 5 of a normal run has entered   *)
(* and is one blow from death; a bullet is in flight towards the final boss *)
(* (its body takes no damage, only its weak point does).  The player        *)
(* presses and releases F at will; the swing reaches the boss or misses,    *)
(* the bullet flies on or hits the weak point.  After the                   *)
(* boss has fallen time goes on: startNextWave, the narration, the next     *)
(* wave.  Between two waves frames keep coming, and callbacks that are due  *)
(* run (the browser's frame loop and timer queue).                          *)

Tottering ==
    {[BossEntered(Level(L), 39700 - Level(L).wallTime)
         EXCEPT !.boss[1].hp = 1000,
                !.bullets = IF L = MAX_LEVEL THEN <<[isLaser |-> FALSE]>> ELSE <<>>] : L \in 1..5}

TriumphInputs ==
    [dts |-> {100}, until |-> TriumphEnd, fates |-> {"fly", "weak"},
     loots |-> {[drop |-> 99, kind |-> 0]},
     spawns |-> {99}, attacks |-> {99}, bursts |-> "none", melees |-> "all",
     picks |-> "none", bands |-> "none", touches |-> {},
     bbHits |-> FALSE, bbGones |-> FALSE, nearests |-> {"none"}, inRanges |-> {TRUE},
     keys |-> {"KeyF"}, outcomes |-> {"ok"}, locks |-> {TRUE}]

InitTriumph == \E s \in Tottering : Start(s)

NextTriumph ==
    \/ Animate(TriumphInputs)
    \/ KeyDown(TriumphInputs)
    \/ KeyUp
    \/ MeleeHitFires(TriumphInputs)
    \/ StartNextWaveFires
    \/ ShowMessagesFires

\* a frame between two waves
Interlude(R) == gameState = "wave_transition" /\ Animate(R)

SpecTriumph ==
    /\ InitTriumph /\ [][NextTriumph]_vars
    /\ WF_vars(Interlude(TriumphInputs))
    /\ WF_vars(StartNextWaveFires)
    /\ WF_vars(ShowMessagesFires)

\* the pending startNextWave callbacks
NextWaveCalls(q) == Cardinality({k \in 1..Len(q) : q[k].kind = "startNextWave"})

\* C27: the step in which the boss is defeated ends in victory, with the
\* victory callback invoked once, exactly when currentLevel is 5; otherwise
\* it ends in wave_transition with exactly one startNextWave scheduled; while
\* the transition lasts, currentLevel plus the number of scheduled
\* startNextWave calls stays the same and no call is left when the mode is
\* playing, and the next wave does begin: one level higher (for a boss that
\* falls within 3 s of the scene's start, so that the model's horizon covers
\* the narration)
C27_VictoryOrNextWave ==
    /\ [][hist'.bossDeaths > 0 =>
            /\ hist'.bossDeaths = 1 /\ boss' = <<>> /\ currentLevel' = currentLevel
            /\ IF currentLevel = MAX_LEVEL
               THEN /\ gameState' = "victory" /\ hist'.victories = 1
                    /\ NextWaveCalls(timers') = 0
               ELSE /\ gameState' = "wave_transition" /\ hist'.victories = 0
                    /\ NextWaveCalls(timers') = 1]_vars
    /\ [][(hist'.victories > 0 \/ (gameState' = "victory" /\ gameState # "victory")) =>
              hist'.bossDeaths = 1]_vars
    /\ [][(gameState = "wave_transition" /\ gameState' \in {"wave_transition", "playing"}) =>
              currentLevel' + NextWaveCalls(timers') = currentLevel + NextWaveCalls(timers)]_vars
    /\ [](gameState = "playing" => NextWaveCalls(timers) = 0)
    /\ (gameState = "wave_transition" /\ hist.bossDeaths = 1 /\ wallTime <= TriumphEnd - 1300)
          ~> (gameState = "playing" /\ hist.waves = 1)

\* the level-5 boss has just fallen: victory
C27_Won ==
    /\ hist.op = "animate" /\ hist.bossDeaths = 1 /\ hist.victories = 1
    /\ currentLevel = 5 /\ gameState = "victory" /\ boss = <<>> /\ timers = <<>>

----------------------------------------------------------------------------
(* Specification SpecOverrun: the start control is activated six times,     *)
(* 0.2 s apart, during the opening countdown (the start screen stays up     *)
(* until the first wave begins); the six startNextWave callbacks and the    *)
(* narrations they start have run, wave 6 is being played.  400 s into the  *)
(* session its last enemy, a drone, is one blow of the blade from death.    *)
(* The player presses and releases F at will; then the boss sequence runs.  *)

RECURSIVE Settled(_)
\* the pending startNextWave and showMessages callbacks of s have all run, each
\* when due
Settled(s) ==
    IF s.timers = <<>> THEN s
    ELSE LET a == Later(s, MinRem(s.timers))
             i == CHOOSE k \in 1..Len(a.timers) :
                     /\ a.timers[k].rem = 0
                     /\ \A j \in 1..(k - 1) : a.timers[j].rem # 0
         IN Settled(IF a.timers[i].kind = "startNextWave"
                    THEN startNextWave(FireIn(a, i))
                    ELSE showMessages(FireIn(a, i), a.timers[i].index, a.timers[i].messages))

RECURSIVE Clicks(_)
\* n start requests, 0.2 s apart
Clicks(n) == IF n = 1 THEN Clicked ELSE ClickAgain(Clicks(n - 1), 20)

Overrun ==
    {InWave(s, 40000 - s.wallTime, s.wave.totalToKill, s.wave.totalToKill - 1,
            <<Foe(s, 1, "drone", 500)>>) : s \in {Settled(Clicks(MAX_LEVEL + 1))}}

OverrunInputs ==
    [dts |-> {100}, until |-> OverrunEnd, fates |-> {"fly"},
     loots |-> {[drop |-> 99, kind |-> 0]},
     spawns |-> {99}, attacks |-> {99}, bursts |-> "none", melees |-> "all",
     picks |-> "none", bands |-> "none", touches |-> {},
     bbHits |-> FALSE, bbGones |-> FALSE, nearests |-> {"none"}, inRanges |-> {TRUE},
     keys |-> {"KeyF"}, outcomes |-> {"ok", "failed"}, locks |-> {TRUE}]

InitOverrun == \E s \in Overrun : Start(s)

NextOverrun ==
    \/ Animate(OverrunInputs)
    \/ KeyDown(OverrunInputs)
    \/ KeyUp
    \/ MeleeHitFires(OverrunInputs)
    \/ IntroResolves(OverrunInputs)
    \/ BossSpawnFires

SpecOverrun == InitOverrun /\ [][NextOverrun]_vars

\* C28: a handler that triggers the boss sequence ends in wave_transition with
\* no boss; the callback that ends the intro window ends in boss_fight with a
\* boss whose hp = maxHp = BOSS_BASE[currentLevel].HP, times 1.5 in the
\* harder replay; and whenever the mode is boss_fight a boss is present
C28_BossFightHasBoss ==
    /\ [][hist'.bossSeq > 0 => gameState' = "wave_transition" /\ boss' = <<>>]_vars
    /\ [][hist'.op = "bossSpawn" =>
            /\ gameState' = "boss_fight"
            /\ boss' # <<>>
            /\ boss'[1].hp = boss'[1].maxHp
            /\ boss'[1].hp = IF isNewGamePlus
                             THEN (Cents(BossConfig(currentLevel).HP) * 3) \div 2
                             ELSE Cents(BossConfig(currentLevel).HP)]_vars
    /\ [](gameState = "boss_fight" => boss # <<>>)

----------------------------------------------------------------------------
(* Specification SpecMenu: the pause screen.  10 s into the session the     *)
(* game has been paused, 5 s into wave 1 or as the boss of level 1 entered. *)
(* Resume continues the fight; Main Menu quits to the start screen:         *)
(* quitToMainMenu resets the game, resetGame ends with startGame, and 5 s   *)
(* later the first wave of the new game begins.                             *)

Halted ==
    {togglePause(Begin(s, "togglePause", s.epoch)) :
        s \in {Later(Opened, 500), BossEntered(Opened, 200)}}

MenuInputs ==
    [dts |-> {100}, until |-> MenuEnd, fates |-> {"fly"},
     loots |-> {[drop |-> 99, kind |-> 0]},
     spawns |-> {99}, attacks |-> {99}, bursts |-> "none", melees |-> "none",
     picks |-> "none", bands |-> "none", touches |-> {},
     bbHits |-> FALSE, bbGones |-> FALSE, nearests |-> {"none"}, inRanges |-> {TRUE},
     keys |-> {}, outcomes |-> {"ok"}, locks |-> {TRUE}]

InitMenu == \E s \in Halted : Start(s)

NextMenu ==
    \/ Animate(MenuInputs)
    \/ ResumeClick(MenuInputs)
    \/ PauseClick
    \/ QuitClick
    \/ StartNextWaveFires

SpecMenu == InitMenu /\ [][NextMenu]_vars

\* the modes in which the simulation is ticked
Ticked == {"playing", "boss_fight"}

\* C29: whenever the mode is playing or boss_fight the clock is running, and
\* a frame taken in such a mode advances the clock's elapsed time (the tick
\* gets a positive deltaTime), also in a new game started after quitting to
\* the main menu from the pause screen
C29_ClockRunsInPlay ==
    /\ [](gameState \in Ticked => clock.running)
    /\ [][(hist'.op = "animate" /\ gameState \in Ticked) =>
              clock'.elapsedTime > clock.elapsedTime]_vars

\* the cooldown of the weapon in hand (updatePlayer, line 767)
ShootCooldown ==
    IF player.skills.z.active THEN LASER_COOLDOWN ELSE WeaponConfig(weaponLevel).COOLDOWN

\* C30: a pause does not lengthen the weapon's gate: a frame taken in playing
\* or boss_fight that by itself delivers more simulated time than the
\* weapon's cooldown (so that more than the cooldown of un-paused time has
\* passed since lastShotTime, whenever the last shot was), with the fire
\* button held, a loaded magazine, no reload (under way or asked for) and no
\* melee swing, fires
C30_GatesIgnorePause ==
    [][(/\ hist'.op = "animate" /\ gameState \in Ticked
        /\ clock.running /\ clock'.elapsedTime - clock.elapsedTime > ShootCooldown
        /\ "mouse0" \in keys /\ player.ammoInMagazine > 0
        /\ ~player.reloading /\ "KeyR" \notin keys /\ ~player.melee.attacking)
          => hist'.shot]_vars

----------------------------------------------------------------------------
(* Specification SpecQuake: the hazards of the tier-3 and tier-4 bosses.    *)
(* Two scenes, 400 s into the session: the boss of level 3 or of level 4    *)
(* has entered and attacks in the first frame (an aimed shot and a          *)
(* shockwave, or a laser shot and a ring).  The player jumps at will        *)
(* (Space); in every frame each hazard's band is or is not at the player's  *)
(* distance (the shockwave's band is 2 wide and moves 1 a frame).  Frames   *)
(* are 0.2 s apart.                                                         *)

Quaking == {BossEntered(Level(L), 39700 - Level(L).wallTime) : L \in 3..4}

QuakeInputs ==
    [dts |-> {20}, until |-> QuakeEnd, fates |-> {"fly"},
     loots |-> {[drop |-> 99, kind |-> 0]},
     spawns |-> {99}, attacks |-> {99}, bursts |-> "none", melees |-> "none",
     picks |-> "none", bands |-> "any", touches |-> {},
     bbHits |-> FALSE, bbGones |-> FALSE, nearests |-> {"none"}, inRanges |-> {TRUE},
     keys |-> {"Space"}, outcomes |-> {"ok"}, locks |-> {TRUE}]

InitQuake == \E s \in Quaking : Start(s)

NextQuake ==
    \/ Animate(QuakeInputs)
    \/ KeyDown(QuakeInputs)
    \/ KeyUp

SpecQuake == InitQuake /\ [][NextQuake]_vars

\* C31: a shockwave hurts the player only if it has not hurt the player
\* before, and only in a frame in which the player is grounded
C31_ShockwaveOnce ==
    \A h \in hist.hazards : h.kind = "shockwave" => h.before = 0 /\ h.grounded

\* C32: a ring hurts the player only if it has not hurt the player before,
\* only in a frame in which the player is grounded, and is removed in that
\* frame; no ring that has hurt the player is left
C32_RingOnce ==
    /\ \A h \in hist.hazards : h.kind = "ring" => h.before = 0 /\ h.grounded /\ h.removed
    /\ \A k \in 1..Len(particles) : particles[k].kind = "ring" => particles[k].hits = 0

\* a ring has just hurt the grounded player
C32_RingHit ==
    /\ hist.op = "animate" /\ currentLevel = 4
    /\ \E h \in hist.hazards : h.kind = "ring" /\ h.grounded /\ h.removed
    /\ player.hp < player.maxHp

----------------------------------------------------------------------------
(* Specification SpecSentry: the companion drone at level 4, in the first   *)
(* run and in the run after a death.  In the first run the drone has an     *)
(* enemy in its sights when the player falls; the game is restarted and     *)
(* the new run reaches level 4, where the drone is out again.  The drone    *)
(* finds an enemy or nothing, its target is in range or not, its bullets    *)
(* fly on, leave or hit; the player swings (KeyF).  Frames are 1 s apart.   *)

SentryEnd == 70300

\* level 4 of the run of s, at 700 s: two enemies are left
Patrol(s) ==
    InWave(s, 70000 - s.wallTime, s.wave.totalToKill, s.wave.totalToKill - 2,
           <<Foe(s, 1, "drone", 500), Foe(s, 2, "tank", 2500)>>)

\* the drone aims at the tank at 400 s and the player falls in that frame
Downed ==
    LET p == InWave(Level(4), 40000 - Level(4).wallTime, Level(4).wave.totalToKill,
                    Level(4).wave.totalToKill - 1, <<Foe(Level(4), 3, "tank", 2500)>>)
        a == updateDrone(Begin(p, "animate", p.epoch),
                         [nearest |-> [kind |-> "enemy", id |-> 3], inRange |-> TRUE])
    IN playerTakeDamage(a, a.player.hp)

RECURSIVE Rerun(_, _)
\* the end screen of s is clicked and wave L of the new run has just begun,
\* a minute after the one before
Rerun(s, L) ==
    IF L = 1
    THEN LET s0 == [Begin(s, "handleStartGame", s.epoch) EXCEPT
                       !.pointerLock = TRUE, !.message = <<>>]
             r == resetGame(s0, FALSE)
         IN startNextWave(FireIn(Later(r, r.timers[1].rem), 1))
    ELSE NextLevel(Rerun(s, L - 1), s.wallTime + L * 6000)

Sentries == {Patrol(Level(4)), Patrol(Rerun(Downed, 4))}

SentryInputs ==
    [dts |-> {100}, until |-> SentryEnd, fates |-> {"fly", "gone", "enemy"},
     loots |-> {[drop |-> 99, kind |-> 0]},
     spawns |-> {99}, attacks |-> {99}, bursts |-> "none", melees |-> "all or none",
     picks |-> "none", bands |-> "none", touches |-> {},
     bbHits |-> FALSE, bbGones |-> FALSE, nearests |-> {"none", "enemy"},
     inRanges |-> {TRUE, FALSE},
     keys |-> {"KeyF"}, outcomes |-> {"ok"}, locks |-> {TRUE}]

InitSentry == \E s \in Sentries : Start(s)

NextSentry ==
    \/ Animate(SentryInputs)
    \/ KeyDown(SentryInputs)
    \/ KeyUp
    \/ MeleeHitFires(SentryInputs)

SpecSentry == InitSentry /\ [][NextSentry]_vars

\* C33: each time the drone fires, its target is a live entity of the
\* current run: an enemy of the enemies collection with hp > 0 or the boss
\* that is present; a target that was removed, killed or that belongs to a
\* run before the last reset is never fired at
C33_DroneFiresAtLive == \A t \in hist.aimed : t.live

\* the drone has fired at a live enemy of the current run
C33_DroneFired == \E t \in hist.aimed : t.live /\ t.run = epoch /\ t.kind = "enemy"

----------------------------------------------------------------------------
(* Specification SpecGraze: enemies in contact.  The level-3 skirmish of    *)
(* SpecDuel and the level-3 boss fight, with the tank or the boss touching  *)
(* the player in any frame; the player raises the shield (KeyG) at will.    *)
(* Frames are 0.25 s apart, half the immunity window.                       *)

GrazeEnd == 40150

Grazed == {x \in Skirmish : x.player.hp = x.player.maxHp}
              \cup {BossEntered(Level(3), 39700 - Level(3).wallTime)}

GrazeInputs ==
    [dts |-> {25}, until |-> GrazeEnd, fates |-> {"fly"},
     loots |-> {[drop |-> 99, kind |-> 0]},
     spawns |-> {99}, attacks |-> {99}, bursts |-> "none", melees |-> "none",
     picks |-> "none", bands |-> "none", touches |-> {"enemy", "boss"},
     bbHits |-> FALSE, bbGones |-> FALSE, nearests |-> {"none"}, inRanges |-> {TRUE},
     keys |-> {"KeyG"}, outcomes |-> {"ok"}, locks |-> {TRUE}]

InitGraze == \E s \in Grazed : Start(s)

NextGraze ==
    \/ Animate(GrazeInputs)
    \/ KeyDown(GrazeInputs)
    \/ KeyUp

SpecGraze == InitGraze /\ [][NextGraze]_vars

\* C34: contact damage (enemy or boss touching the player) is applied at
\* most once per tick; an application comes more than DAMAGE_IMMUNITY of
\* clock time after lastHitTime, the time of the one before, and sets
\* lastHitTime to the time of the tick, also when the shield absorbs it
C34_ContactWindow ==
    [][hist'.op = "animate" /\ hist'.contacts > 0 =>
          /\ hist'.contacts = 1
          /\ clock'.elapsedTime > player.lastHitTime + DAMAGE_IMMUNITY
          /\ player'.lastHitTime = clock'.elapsedTime]_vars

\* the second contact of the fight, absorbed by the shield: the first one
\* was taken at 400.25 s or later and has cost hp
C34_SecondContact ==
    /\ hist.op = "animate" /\ hist.contacts = 1 /\ hist.shielded = 1
    /\ player.hp < player.maxHp
    /\ player.lastHitTime = clock.elapsedTime
    /\ player.lastHitTime > 40075

----------------------------------------------------------------------------
(* Specification SpecBlast: kamikazes in contact.  Level 4, 400 s into the  *)
(* session: the last four enemies of the wave are two kamikazes, a fresh    *)
(* tank and a worn one.  Any of them may touch the player; the burst of a   *)
(* kamikaze reaches any of the others.  Nothing else harms anyone: the      *)
(* player only jumps, the drone finds no target.  Frames are 1 s apart.     *)

BlastEnd == 40200

Swarm ==
    LET s == Level(4)
        total == s.wave.totalToKill
    IN {InWave(s, 40000 - s.wallTime, total, total - 4,
               <<Foe(s, 1, "kamikaze", 1300), Foe(s, 2, "kamikaze", 1300),
                 Foe(s, 3, "tank", 11700), Foe(s, 4, "tank", 3000)>>)}

BlastInputs ==
    [dts |-> {100}, until |-> BlastEnd, fates |-> {"fly"},
     loots |-> {[drop |-> 99, kind |-> 0]},
     spawns |-> {99}, attacks |-> {99}, bursts |-> "any", melees |-> "none",
     picks |-> "none", bands |-> "none", touches |-> {"enemy"},
     bbHits |-> FALSE, bbGones |-> FALSE, nearests |-> {"none"}, inRanges |-> {TRUE},
     keys |-> {"Space"}, outcomes |-> {"ok"}, locks |-> {TRUE}]

InitBlast == \E s \in Swarm : Start(s)

NextBlast ==
    \/ Animate(BlastInputs)
    \/ KeyDown(BlastInputs)
    \/ KeyUp

SpecBlast == InitBlast /\ [][NextBlast]_vars

\* the enemies of q other than id that a burst of damage reaching the ids
\* of within kills
Felled(q, id, within, damage) ==
    {k \in 1..Len(q) : q[k].id # id /\ q[k].id \in within /\ q[k].hp <= damage}

----------------------------------------------------------------------------
(* The reload, under SpecArsenal: magazines of 1 and 2 rounds, reserves of  *)
(* 0, 20 and 90, R and the fire button pressed and released at will.        *)

\* the rounds a reload that completes now moves
ReloadMoves == Min2(player.maxAmmoInMagazine - player.ammoInMagazine, player.reserveAmmo)

\* C36: a reload starts only when none is under way, R is down, the reserve
\* holds rounds and the magazine is not full; in the frame that starts it
\* and in every frame it lasts no shot is fired and no round moves; the
\* frame that completes it moves min(maxAmmoInMagazine - ammoInMagazine,
\* reserveAmmo) rounds from the reserve to the magazine, so that magazine
\* plus reserve is what it was (less the round of a shot fired after the
\* completion in that frame)
C36_Reload ==
    [][hist'.op = "animate" =>
          LET spent == IF hist'.shot /\ ~player.skills.z.active THEN 1 ELSE 0
          IN /\ (~player.reloading /\ player'.reloading) =>
                   /\ "KeyR" \in keys
                   /\ player.reserveAmmo > 0
                   /\ player.ammoInMagazine < player.maxAmmoInMagazine
                   /\ player'.reloadTime = WeaponConfig(weaponLevel).RELOAD_TIME
                   /\ ~hist'.shot
                   /\ player'.ammoInMagazine = player.ammoInMagazine
                   /\ player'.reserveAmmo = player.reserveAmmo
             /\ (player.reloading /\ player'.reloading) =>
                   /\ player'.reloadTime < player.reloadTime
                   /\ player'.reloadTime > 0
                   /\ ~hist'.shot
                   /\ player'.ammoInMagazine = player.ammoInMagazine
                   /\ player'.reserveAmmo = player.reserveAmmo
             /\ (player.reloading /\ ~player'.reloading) =>
                   /\ player'.ammoInMagazine = player.ammoInMagazine + ReloadMoves - spent
                   /\ player'.reserveAmmo = player.reserveAmmo - ReloadMoves
                   /\ player'.ammoInMagazine + spent + player'.reserveAmmo
                         = player.ammoInMagazine + player.reserveAmmo]_vars

\* a reload of a magazine of 1 with a reserve of 20 has completed: the
\* magazine holds 21 rounds, the reserve none
C36_PartialReload ==
    /\ hist.op = "animate" /\ ~player.reloading /\ ~hist.shot
    /\ player.ammoInMagazine = 21 /\ player.reserveAmmo = 0
    /\ player.maxAmmoInMagazine = 30

----------------------------------------------------------------------------
(* Specification SpecAdept: overcharge and shield.  The level-3 skirmish of *)
(* SpecGraze (both skills are unlocked, the tank is out of reach).  Z and G *)
(* are pressed and released at will; frames are 1.5 s apart, so that the    *)
(* durations (5 s and 4 s) run out in the middle of a frame.                *)

AdeptEnd == 41200

AdeptInputs ==
    [dts |-> {150}, until |-> AdeptEnd, fates |-> {"fly"},
     loots |-> {[drop |-> 99, kind |-> 0]},
     spawns |-> {99}, attacks |-> {99}, bursts |-> "none", melees |-> "none",
     picks |-> "none", bands |-> "none", touches |-> {},
     bbHits |-> FALSE, bbGones |-> FALSE, nearests |-> {"none"}, inRanges |-> {TRUE},
     keys |-> {"KeyZ", "KeyG"}, outcomes |-> {"ok"}, locks |-> {TRUE}]

InitAdept == \E s \in {x \in Skirmish : x.player.hp = x.player.maxHp} : Start(s)

NextAdept ==
    \/ Animate(AdeptInputs)
    \/ KeyDown(AdeptInputs)
    \/ KeyUp

SpecAdept == InitAdept /\ [][NextAdept]_vars

\* a timed skill sk (active, duration, cooldown) with its key, its unlocked
\* flag, its full duration and full cooldown, before and after a frame
SkillStep(sk, sk1, key, unlocked, duration, cooldown) ==
    /\ (~sk.active /\ sk1.active) =>
          /\ key \in keys /\ unlocked /\ sk.cooldown <= 0
          /\ sk1.duration = duration - FrameDelta
          /\ sk1.cooldown = cooldown - FrameDelta
    /\ sk.active =>
          /\ sk1.active = (sk.duration - FrameDelta > 0)
          /\ sk1.duration = sk.duration - FrameDelta
          /\ sk1.cooldown = sk.cooldown - FrameDelta

\* C37: the overcharge and the shield are activated only when unlocked and
\* with cooldown <= 0; activation sets active, the full duration and the
\* full cooldown, which the same frame then begins to count down; an
\* active skill stays active exactly until its duration of frame time has
\* run out and is not activated anew meanwhile; in every state active
\* implies cooldown > 0
C37_TimedSkills ==
    /\ [](PlayerDefined(Cur) =>
            /\ player.skills.z.active =>
                  /\ player.skills.z.cooldown > 0 /\ player.skills.z.duration > 0
                  /\ player.skills.z.cooldown - player.skills.z.duration
                        = SKILL_Z_COOLDOWN - SKILL_Z_DURATION
            /\ player.shield.active =>
                  /\ player.shield.cooldown > 0 /\ player.shield.duration > 0
                  /\ player.shield.cooldown - player.shield.duration
                        = SHIELD_COOLDOWN - SHIELD_DURATION)
    /\ [][hist'.op = "animate" /\ gameState \in {"playing", "boss_fight"} =>
            /\ SkillStep(player.skills.z, player'.skills.z, "KeyZ",
                         player.skills.z.unlocked, SKILL_Z_DURATION, SKILL_Z_COOLDOWN)
            /\ SkillStep(player.shield, player'.shield, "KeyG",
                         player.shield.unlocked, SHIELD_DURATION, SHIELD_COOLDOWN)]_vars

\* the shield has run out in this frame, 4.5 s after it was raised, while Z
\* and G are held: the overcharge, begun a frame later, is still active and
\* neither skill is activated anew
C37_RunOut ==
    /\ hist.op = "animate" /\ {"KeyZ", "KeyG"} \subseteq keys
    /\ ~player.shield.active /\ player.shield.duration = -50
    /\ player.shield.cooldown = SHIELD_COOLDOWN - 450
    /\ player.skills.z.active /\ player.skills.z.duration = 200

----------------------------------------------------------------------------
(* The swing, under SpecHandling: F, R and the aim button pressed and       *)
(* released at will, frames 0.2 s apart, the sweep 0.15 s after the swing   *)
(* has begun.                                                               *)

\* the hit sweeps that are pending
MeleeTimers(q) == Cardinality({k \in 1..Len(q) : q[k].kind = "meleeHit"})

\* a frame has begun a swing (a long frame also ends it)
SwingBegins == hist'.op = "animate" /\ ~player.melee.attacking /\ hist'.swinging

\* C38: a swing begins only with F down, melee.cooldown <= 0, no swing in
\* progress and the player not aiming (an aim held at the start of the
\* frame has been lowered by the reload under way before the swing is
\* tested); aiming begins only on the aim button
\* and not while a swing is in progress; melee.attacking and isAiming are
\* never both true; a swing schedules one hit sweep, nothing else schedules
\* or drops one, and at most one is pending
C38_Swing ==
    /\ [](PlayerDefined(Cur) =>
            /\ ~(player.melee.attacking /\ player.isAiming)
            /\ MeleeTimers(timers) <= 1)
    /\ [][SwingBegins =>
            /\ "KeyF" \in keys
            /\ player.melee.cooldown <= 0
            /\ player.isAiming => player.reloading
            /\ MeleeTimers(timers) = 0]_vars
    /\ [][(player # NoPlayer /\ player' # NoPlayer /\ ~player.isAiming /\ player'.isAiming) =>
            /\ hist'.op = "onMouseDown"
            /\ ~player.melee.attacking]_vars
    /\ [][MeleeTimers(timers') = MeleeTimers(timers)
                                   + (IF SwingBegins THEN 1 ELSE 0)
                                   - (IF hist'.op = "meleeHit" THEN 1 ELSE 0)]_vars

\* the aim button is pressed during a swing whose sweep is still to come:
\* the player does not aim
C38_AimRefused ==
    /\ hist.op = "onMouseDown" /\ player.melee.attacking /\ ~player.isAiming
    /\ MeleeTimers(timers) = 1 /\ ~player.reloading

----------------------------------------------------------------------------
(* The messages, under SpecAdept: a frame in which Z and G are both down    *)
(* and both skills are ready emits two messages.                            *)

\* C39: the messages a callback emits, two emitted back-to-back included,
\* reach the presentation layer with distinct, increasing identifiers
C39_MessageIds ==
    \A i, j \in 1..Len(hist.said) : i < j => hist.said[i].id < hist.said[j].id

----------------------------------------------------------------------------
(* The wave account, under SpecWave: the enemies of a wave that a second    *)
(* startNextWave has overwritten are still alive in the new one.            *)

\* C40: in every state of a wave (mode playing) killedInWave plus the
\* number of enemies alive is spawnedInWave, hence killedInWave <=
\* spawnedInWave <= totalToKill, and with killedInWave at totalToKill no
\* enemy is alive
C40_WaveAccount ==
    gameState = "playing" =>
        /\ wave.killedInWave + Len(enemies) = wave.spawnedInWave
        /\ wave.killedInWave <= wave.spawnedInWave
        /\ wave.spawnedInWave <= wave.totalToKill
        /\ wave.killedInWave >= wave.totalToKill => enemies = <<>>

============================================================================
